---- MODULE Spec2Model ----
(***************************************************************************)
(* A model of fakenet's delay queue (src/delay_queue.rs), the select-with- *)
(* timers macro built on it, the keyed dispatcher (src/protocols/utils.rs) *)
(* and the TAP interface adapter (src/protocols/ether.rs).                 *)
(***************************************************************************)
EXTENDS Integers, Sequences, FiniteSets, TLC

VARIABLES
    items,      \* DelayQueue.items: BTreeMap<Instant, T>, a function deadline -> value
    now,        \* the monotonic clock read by Instant::now()
    opLog,      \* history: the queue operations performed so far, in order
    sel,        \* the select_queues! invocation in progress, if any
    chan,       \* the plain channel of the recv(channel) arm
    recv_map,   \* RecvSenderMap: HashMap<Key, Sender<T>>, a function key -> channel
    chans,      \* the bounded channels behind the registered senders
    connected,  \* per channel: its receiver has not been dropped
    disp,       \* the dispatch call blocked in send (holding the map's guard), if any
    regLog,     \* history: the register calls, in order
    dispLog,    \* history: the completed dispatch calls and their results
    received,   \* history: per channel, what its receiver has taken
    tapIn,      \* frames the kernel holds for the TAP file descriptor, not yet read
    readLog,    \* history: the frames the reader thread has read from the TAP
    tapOut,     \* history: the frames written to the TAP, as bytes
    write_chan, \* TapInterface.write_sender / write_receiver: the outbound channel
    pipe,       \* unread bytes in the self-pipe (write_alert_*_fd)
    alerter,    \* per writer() call: its alerter channel
    relay,      \* per writer() call: its relay thread
    rd,         \* the reader thread spawned by start()
    sentLog,    \* history: per writer() endpoint, the frames sent on it
    arp_recv,   \* ArpServer.receiver: the channel of inbound ARP frames
    addresses,  \* ArpServer.addresses: HashSet<Ipv4Address> behind the RwLock
    arp,        \* the ARP actor thread spawned by ArpServer::start
    arp_sent,   \* the frames the ARP actor has sent on write_sender, in order
    arpLog,     \* history: the packets the ARP actor has finished processing
    addLog,     \* history: the add() calls that have returned, in order
    v6_frames,  \* ipv6::Server.frame_receiver: the channel of inbound IPv6 frames
    v6_map,     \* ipv6::Server.recv_map: RecvSenderMap<Packet>, next header -> channel
    v6_chans,   \* the bounded channels behind the senders registered in v6_map
    v6,         \* the thread spawned by start_ipv6
    icmp6,      \* the thread spawned by start_icmpv6
    v6Log,      \* history: what the two threads did with each inbound unit
    if_addrs,   \* the actor's InterfaceAddress list: address -> state
    maint,      \* the address-maintenance DelayQueue<Address>
    v6_now,     \* the clock of the IPv6 actor
    v6_out,     \* history: what the actor sent, what it reported, what it popped
    started,    \* the actor has been started
    tr_state,   \* TimeReactor.state: next_handle, scheduled, upcoming, event_handlers, running
    tr,         \* the position of the thread that owns the reactor
    tr_now,     \* the clock read by the reactor
    tr_events,  \* TimeReactor.event_receiver: the event channel
    trLog,      \* history: registrations, cancels, fired timers, events taken, stops
    pf,         \* a call of an encoder or parser: its input, its stage, its results
    cap         \* the capacity the bounded channels were created with

dqVars == <<items, now, opLog>>
selVars == <<sel, chan>>
mapVars == <<recv_map, chans, connected, disp, regLog, dispLog, received>>

tapVars == <<tapIn, readLog, tapOut, write_chan, pipe, alerter, relay, rd, sentLog>>

arpVars == <<arp_recv, addresses, arp, arp_sent, arpLog, addLog>>
inVars == <<v6_frames, v6_map, v6_chans, v6, icmp6, v6Log>>
addrVars == <<if_addrs, maint, v6_now, v6_out, started>>
ip6Vars == <<inVars, addrVars>>
trVars == <<tr_state, tr, tr_now, tr_events, trLog>>
pfVars == <<pf>>
capVars == <<cap>>

coreVars == <<dqVars, selVars, mapVars, tapVars>>
extVars == <<arpVars, ip6Vars, trVars, pfVars, capVars>>

vars == <<items, now, opLog, sel, chan,
          recv_map, chans, connected, disp, regLog, dispLog, received,
          tapIn, readLog, tapOut, write_chan, pipe, alerter, relay, rd, sentLog,
          arp_recv, addresses, arp, arp_sent, arpLog, addLog,
          v6_frames, v6_map, v6_chans, v6, icmp6, v6Log,
          if_addrs, maint, v6_now, v6_out, started,
          tr_state, tr, tr_now, tr_events, trLog, pf, cap>>

----------------------------------------------------------------------------
(* Bounds of the model *)

MaxTime == 1          \* the clock runs over 0..MaxTime
MaxDelay == 1         \* push_after durations run over 0..MaxDelay
MaxOps == 4           \* queue operations recorded in opLog
MaxSelOps == 3        \* pushes and select_queues! invocations recorded in opLog
ChanCap == 2          \* capacity of a bounded channel (1024 in the program)
MaxRegs == 2          \* register calls
MaxItems == 3         \* dispatch calls
MaxIn == 2            \* frames arriving at the TAP
MaxOut == 2           \* frames sent on writer() endpoints

Instants == 0..(MaxTime + MaxDelay)
Vals == {"a", "b"}

(* Option<T>: None is the empty tuple, Some(v) the one-element tuple *)
None == <<>>
Some(v) == <<v>>

----------------------------------------------------------------------------
(* DelayQueue (src/delay_queue.rs) *)

EmptyMap == [t \in {} |-> "a"]

Min(S) == CHOOSE x \in S : \A y \in S : x <= y
Max(S) == CHOOSE x \in S : \A y \in S : x >= y

(* BTreeMap::insert: the value stored under an existing key is replaced *)
BTreeMap_insert(m, k, v) == [x \in (DOMAIN m) \cup {k} |-> IF x = k THEN v ELSE m[x]]

(* BTreeMap::remove: the map without the key, and the value it held *)
BTreeMap_remove(m, k) ==
    [ret |-> IF k \in DOMAIN m THEN Some(m[k]) ELSE None,
     map |-> [x \in (DOMAIN m) \ {k} |-> m[x]]]

new == EmptyMap

push_at(q, t, i) == BTreeMap_insert(q, t, i)

push_after_now(q, clock, d, i) == push_at(q, clock, i)

push_after(q, clock, d, i) == push_at(q, clock + d, i)

pop_at(q, t) == BTreeMap_remove(q, t)

pop_last(q) ==
    IF DOMAIN q = {} THEN [ret |-> None, map |-> q]
    ELSE LET r == pop_at(q, Max(DOMAIN q)) IN [ret |-> Some(r.ret[1]), map |-> r.map]

(* first_key is the smallest key of the map (keys().next()) *)
pop(q) ==
    IF DOMAIN q = {} THEN [ret |-> None, map |-> q]
    ELSE LET first_key == Min(DOMAIN q)
             r == pop_at(q, first_key)
         IN  [ret |-> Some(r.ret[1]), map |-> r.map]

(* channel::at(k) for the smallest key k, channel::never() when empty *)
receiver(q) == IF DOMAIN q = {} THEN None ELSE Some(Min(DOMAIN q))

----------------------------------------------------------------------------
(* RecvSenderMap (src/protocols/utils.rs, lines 182-207), keyed here by the
   EtherType of a frame *)

Arp == 2054
Ipv4 == 2048
Ipv6 == 34525
Type == {Arp, Ipv4, Ipv6}
(* the EtherTypes the servers of the program register (arp.rs:84, ipv6/mod.rs:216) *)
Registered == {Arp, Ipv6}

ChanIds == {"s1", "s2"}

(* DispatchKeyed: the key of a frame is its EtherType, the key of an IPv6
   packet is its next header *)
dispatch_key(item) ==
    IF "ethertype" \in DOMAIN item THEN item.ethertype ELSE item.next_header

RecvSenderMap_new == [k \in {} |-> "s1"]

register_keep_first(map, key, sender) ==
    IF key \in DOMAIN map THEN map
    ELSE [k \in (DOMAIN map) \cup {key} |-> IF k = key THEN sender ELSE map[k]]

(* HashMap::insert(key, sender.clone()): the sender stored under the key is replaced *)
register(map, key, sender) ==
    [k \in (DOMAIN map) \cup {key} |-> IF k = key THEN sender ELSE map[k]]

dispatch_fallback(map, cs, conn, item) ==
    LET key == dispatch_key(item)
        to == IF key \in DOMAIN map THEN {map[key]} ELSE {map[k] : k \in DOMAIN map}
    IN  IF to # {}
        THEN LET sender == CHOOSE c \in to : TRUE IN
             IF ~conn[sender] THEN [res |-> "Err", chans |-> cs]
             ELSE IF Len(cs[sender]) >= cap THEN [res |-> "Block", chans |-> cs]
             ELSE [res |-> "Ok", chans |-> [cs EXCEPT ![sender] = Append(@, item)]]
        ELSE [res |-> "Ok", chans |-> cs]

(* a send that puts the item before the items already queued *)
dispatch_at_front(map, cs, conn, item) ==
    LET key == dispatch_key(item) IN
        IF key \in DOMAIN map
        THEN LET sender == map[key] IN
             IF ~conn[sender] THEN [res |-> "Err", chans |-> cs]
             ELSE IF Len(cs[sender]) >= cap THEN [res |-> "Block", chans |-> cs]
             ELSE [res |-> "Ok", chans |-> [cs EXCEPT ![sender] = <<item>> \o @]]
        ELSE [res |-> "Ok", chans |-> cs]

(* dispatch(item): the sender registered for the item's key, if any, gets the
   item; send fails when the receiver is gone and blocks while the bounded
   channel is full ("Block": the call has not returned); with no sender
   registered a warning is printed and the item is dropped.  Ok(()) either way. *)
dispatch(map, cs, conn, item) ==
    LET key == dispatch_key(item) IN
        IF key \in DOMAIN map
        THEN LET sender == map[key] IN
             IF ~conn[sender] THEN [res |-> "Err", chans |-> cs]
             ELSE IF Len(cs[sender]) >= cap THEN [res |-> "Block", chans |-> cs]
             ELSE [res |-> "Ok", chans |-> [cs EXCEPT ![sender] = Append(@, item)]]
        ELSE [res |-> "Ok", chans |-> cs]

----------------------------------------------------------------------------
(* Ethernet frames (src/protocols/ether.rs) *)

Err == [ok |-> FALSE]
Ok(v) == [ok |-> TRUE, v |-> v]

be_u16(v) == <<v \div 256, v % 256>>

RECURSIVE Zeros(_)
Zeros(n) == IF n <= 0 THEN <<>> ELSE <<0>> \o Zeros(n - 1)

MinFrameLen == 60

(* Frame::encode: dest, src, the type big-endian, the payload; zero-padded to 60 bytes *)
Frame_encode(f) ==
    LET result == f.dest \o f.src \o be_u16(f.ethertype) \o f.payload IN
        IF Len(result) < MinFrameLen THEN result \o Zeros(MinFrameLen - Len(result)) ELSE result

(* frame(input): two 6-byte addresses, a big-endian u16 that must be a known
   EtherType, and the rest as payload; anything else is an error *)
frame(input) ==
    IF Len(input) < 6 THEN Err
    ELSE IF Len(input) < 12 THEN Err
    ELSE IF Len(input) < 14 THEN Err
    ELSE LET ethertype == input[13] * 256 + input[14] IN
         IF ethertype \notin Type THEN Err
         ELSE Ok([dest |-> SubSeq(input, 1, 6), src |-> SubSeq(input, 7, 12),
                  ethertype |-> ethertype, payload |-> SubSeq(input, 15, Len(input))])

Writers == {"w1", "w2"}

HostMac == <<2, 0, 0, 0, 0, 1>>
PeerMac == <<2, 0, 0, 0, 0, 2>>

(* what arrives at the TAP as its n-th frame: frames of the three known
   types, a frame of an unknown type (0x1234) and a frame cut short of its
   14-byte header; the payload carries n, so that no two frames are equal *)
TapInputs(n) ==
    { HostMac \o PeerMac \o be_u16(Arp) \o <<n>>,
      HostMac \o PeerMac \o be_u16(Ipv6) \o <<n>>,
      HostMac \o PeerMac \o be_u16(Ipv4) \o <<n>>,
      HostMac \o PeerMac \o <<18, 52>> \o <<n>>,
      HostMac \o PeerMac \o <<8>> }

(* the n-th frame handed to a writer() endpoint *)
OutFrame(n) == [dest |-> PeerMac, src |-> HostMac, ethertype |-> Arp, payload |-> <<n>>]

----------------------------------------------------------------------------
(* The parts of the state at rest *)

(* channel::bounded(n) at every creation of a channel *)
Bounded(n) == cap = n

SelIdle == [pc |-> "idle", rcv |-> None, start |-> 0, timeout |-> 0, n |-> 0]

QueueIdle ==
    /\ items = new /\ now = 0 /\ opLog = <<>>
    /\ sel = SelIdle /\ chan = <<>>

MapIdle ==
    /\ recv_map = RecvSenderMap_new
    /\ chans = [c \in ChanIds |-> <<>>]
    /\ connected = [c \in ChanIds |-> TRUE]
    /\ disp = None
    /\ regLog = <<>>
    /\ dispLog = <<>>
    /\ received = [c \in ChanIds |-> <<>>]

RdSelecting == [pc |-> "select", tap |-> FALSE, pipe |-> FALSE, frame |-> None]
RelayWaiting == [pc |-> "recv", frame |-> None]

(* TapInterface::open: an empty outbound channel and an empty self-pipe *)
TapIdle ==
    /\ tapIn = <<>> /\ readLog = <<>> /\ tapOut = <<>>
    /\ write_chan = <<>>
    /\ pipe = 0
    /\ alerter = [w \in Writers |-> <<>>]
    /\ relay = [w \in Writers |-> RelayWaiting]
    /\ rd = RdSelecting
    /\ sentLog = [w \in Writers |-> <<>>]

ArpReceiving == [pc |-> "recv", packet |-> None, start |-> {}, seen |-> {}]

(* ArpServer::new: an empty inbound channel and an empty address set *)
ArpIdle ==
    /\ arp_recv = <<>>
    /\ addresses = {}
    /\ arp = ArpReceiving
    /\ arp_sent = <<>>
    /\ arpLog = <<>>
    /\ addLog = <<>>

HopByHop == 0
Udp == 17
Ipv6Icmp == 58

V6ChanIds == {"icmpv6", "udp", "x"}
V6Receiving == [pc |-> "recv", frame |-> None, packet |-> None]

(* ipv6::Server::new: the ICMPv6 channel is registered in the server's own
   map; no address exists before the actor is started *)
Ip6Idle ==
    /\ v6_frames = <<>>
    /\ v6_map = [k \in {Ipv6Icmp} |-> "icmpv6"]
    /\ v6_chans = [c \in V6ChanIds |-> <<>>]
    /\ v6 = V6Receiving
    /\ icmp6 = [pc |-> "recv"]
    /\ v6Log = <<>>
    /\ if_addrs = <<>>
    /\ maint = new
    /\ v6_now = 0
    /\ v6_out = <<>>
    /\ started = FALSE

(* TimeReactor::new: nothing scheduled, no event handler, not running *)
TimeReactor_new ==
    [next_handle |-> 0, scheduled |-> <<>>, upcoming |-> {}, event_handlers |-> <<>>,
     running |-> FALSE]

TrSetup == [pc |-> "setup", instance |-> None, cancelled |-> FALSE, now |-> 0]
TrLooping == [TrSetup EXCEPT !.pc = "loop"]

ReactorIdle ==
    /\ tr_state = TimeReactor_new
    /\ tr = TrSetup
    /\ tr_now = 0
    /\ tr_events = <<>>
    /\ trLog = <<>>

PureIdle == pf = [pc |-> "idle"]

ExtIdle == ArpIdle /\ Ip6Idle /\ ReactorIdle /\ PureIdle

----------------------------------------------------------------------------
(* The queue driven by one owner: pushes and pops in any order *)

InitQueue == Bounded(ChanCap) /\ QueueIdle /\ MapIdle /\ TapIdle /\ ExtIdle

Tick ==
    /\ now < MaxTime
    /\ now' = now + 1
    /\ UNCHANGED <<items, opLog, selVars, mapVars, tapVars, extVars>>

(* a queue shared with a thread that pushes while the owner is blocked in
   its select *)
PushAt_while_waiting(limit) ==
    \E t \in Instants, i \in Vals :
        /\ sel.pc = "waiting"
        /\ Len(opLog) < limit
        /\ items' = push_at(items, t, i)
        /\ opLog' = Append(opLog, <<"push", t, i>>)
        /\ UNCHANGED <<now, selVars, mapVars, tapVars, extVars>>

(* the owner of the queue pushes only while it is not blocked in a select *)
PushAt(limit) ==
    \E t \in Instants, i \in Vals :
        /\ sel.pc = "idle"
        /\ Len(opLog) < limit
        /\ items' = push_at(items, t, i)
        /\ opLog' = Append(opLog, <<"push", t, i>>)
        /\ UNCHANGED <<now, selVars, mapVars, tapVars, extVars>>

PushAfter(limit) ==
    \E d \in 0..MaxDelay, i \in Vals :
        /\ sel.pc = "idle"
        /\ Len(opLog) < limit
        /\ items' = push_after(items, now, d, i)
        /\ opLog' = Append(opLog, <<"push", now + d, i>>)
        /\ UNCHANGED <<now, selVars, mapVars, tapVars, extVars>>

Pop ==
    /\ sel.pc = "idle"
    /\ Len(opLog) < MaxOps
    /\ LET r == pop(items) IN
        /\ items' = r.map
        /\ opLog' = Append(opLog, <<"pop", r.ret>>)
    /\ UNCHANGED <<now, selVars, mapVars, tapVars, extVars>>

NextQueue == Tick \/ PushAt(MaxOps) \/ PushAfter(MaxOps) \/ Pop

SpecQueue == InitQueue /\ [][NextQueue]_vars

----------------------------------------------------------------------------
(* select_queues! { recv_queue(dq) -> x => .., recv(chan) -> m => ..,
   default(d) => .. } (src/delay_queue.rs, lines 51-99).  The macro rewrites
   the recv_queue arm to recv(dq.receiver()) with a handler that pops the
   received deadline, and hands all arms to crossbeam::select!, which is
   modelled by its contract: it blocks until a receiver is ready or the
   timeout has passed, and then runs one ready arm, any of them. *)

Timeouts == {0, 1}
Msgs == {"m"}

(* the at(k) receiver is ready once the clock has reached k; never() is never ready *)
AtReady(rcv, clock) == rcv # None /\ clock >= rcv[1]

(* the receivers are created, dq.receiver() among them, and the thread blocks *)
SelectBegin ==
    \E d \in Timeouts :
        /\ sel.pc = "idle"
        /\ Len(opLog) < MaxSelOps
        /\ sel' = [pc |-> "waiting", rcv |-> receiver(items), start |-> now,
                   timeout |-> d, n |-> sel.n + 1]
        /\ UNCHANGED <<items, now, opLog, chan, mapVars, tapVars, extVars>>

SelectRecord(arm, after, chanAfter, bound) ==
    <<"select", arm,
      [rcv |-> sel.rcv, start |-> sel.start, timeout |-> sel.timeout, at |-> now,
       before |-> items, after |-> after, chanBefore |-> chan,
       chanAfter |-> chanAfter, bound |-> bound]>>

SelectEnd == sel' = [SelIdle EXCEPT !.n = sel.n]

(* recv(dq.receiver()) -> t_res => { let x = t_res.map(|t| dq.pop_at(t).unwrap()); .. } *)
ArmRecvQueue ==
    /\ sel.pc = "waiting"
    /\ AtReady(sel.rcv, now)
    /\ LET r == pop_at(items, sel.rcv[1]) IN
        IF r.ret = None
        THEN /\ sel' = [sel EXCEPT !.pc = "panicked"]
             /\ UNCHANGED <<items, opLog, extVars>>
        ELSE /\ items' = r.map
             /\ opLog' = Append(opLog, SelectRecord("recv_queue", r.map, chan, r.ret))
             /\ SelectEnd
    /\ UNCHANGED <<now, chan, mapVars, tapVars, extVars>>

ArmRecv_pops ==
    /\ sel.pc = "waiting"
    /\ chan # <<>>
    /\ chan' = Tail(chan)
    /\ items' = pop(items).map
    /\ opLog' = Append(opLog, SelectRecord("recv", pop(items).map, Tail(chan), Some(Head(chan))))
    /\ SelectEnd
    /\ UNCHANGED <<now, mapVars, tapVars, extVars>>

(* recv(chan) -> m => handler: the arm is passed through unchanged *)
ArmRecv ==
    /\ sel.pc = "waiting"
    /\ chan # <<>>
    /\ chan' = Tail(chan)
    /\ opLog' = Append(opLog, SelectRecord("recv", items, Tail(chan), Some(Head(chan))))
    /\ SelectEnd
    /\ UNCHANGED <<items, now, mapVars, tapVars, extVars>>

ArmDefault_eager ==
    /\ sel.pc = "waiting"
    /\ now >= sel.start + sel.timeout
    /\ opLog' = Append(opLog, SelectRecord("default", items, chan, None))
    /\ SelectEnd
    /\ UNCHANGED <<items, now, chan, mapVars, tapVars, extVars>>

(* default(d) => handler: nothing was ready and the timeout has passed *)
ArmDefault ==
    /\ sel.pc = "waiting"
    /\ now >= sel.start + sel.timeout
    /\ ~AtReady(sel.rcv, now)
    /\ chan = <<>>
    /\ opLog' = Append(opLog, SelectRecord("default", items, chan, None))
    /\ SelectEnd
    /\ UNCHANGED <<items, now, chan, mapVars, tapVars, extVars>>

(* another thread sends on the plain channel *)
ChanSend ==
    \E m \in Msgs :
        /\ Len(chan) < cap
        /\ chan' = Append(chan, m)
        /\ UNCHANGED <<dqVars, sel, mapVars, tapVars, extVars>>

NextSelect ==
    \/ Tick \/ PushAt(MaxSelOps) \/ PushAfter(MaxSelOps) \/ ChanSend
    \/ SelectBegin \/ ArmRecvQueue \/ ArmRecv \/ ArmDefault

SpecSelect == InitQueue /\ [][NextSelect]_vars

----------------------------------------------------------------------------
(* The dispatcher driven by callers of register and dispatch and by the
   subscribers behind the channels *)

InitDispatch == MapIdle /\ Bounded(ChanCap) /\ QueueIdle /\ TapIdle /\ ExtIdle

(* register takes the write guard: it waits while a dispatch holds it *)
Register ==
    \E key \in Registered, sender \in ChanIds :
        /\ disp = None
        /\ Len(regLog) < MaxRegs
        /\ recv_map' = register(recv_map, key, sender)
        /\ regLog' = Append(regLog, <<key, sender>>)
        /\ UNCHANGED <<chans, connected, disp, dispLog, received, dqVars, selVars, tapVars, extVars>>

(* a dispatch call; the item carries its number and the number of register
   calls made before it *)
Dispatch ==
    \E key \in Type :
        LET item == [ethertype |-> key, id |-> Len(dispLog) + 1, stamp |-> Len(regLog)]
            r == dispatch(recv_map, chans, connected, item)
        IN  /\ disp = None
            /\ Len(dispLog) < MaxItems
            /\ IF r.res = "Block"
               THEN disp' = Some(item) /\ UNCHANGED <<chans, dispLog, extVars>>
               ELSE /\ chans' = r.chans
                    /\ dispLog' = Append(dispLog, <<item, r.res>>)
                    /\ UNCHANGED disp
            /\ UNCHANGED <<recv_map, connected, regLog, received, dqVars, selVars, tapVars, extVars>>

(* the blocked send completes: space was made, or the receiver was dropped *)
DispatchResume ==
    /\ disp # None
    /\ LET r == dispatch(recv_map, chans, connected, disp[1]) IN
        /\ r.res # "Block"
        /\ chans' = r.chans
        /\ dispLog' = Append(dispLog, <<disp[1], r.res>>)
    /\ disp' = None
    /\ UNCHANGED <<recv_map, connected, regLog, received, dqVars, selVars, tapVars, extVars>>

(* a subscriber takes the next item from its channel *)
Receive ==
    \E c \in ChanIds :
        /\ connected[c]
        /\ chans[c] # <<>>
        /\ received' = [received EXCEPT ![c] = Append(@, Head(chans[c]))]
        /\ chans' = [chans EXCEPT ![c] = Tail(@)]
        /\ UNCHANGED <<recv_map, connected, disp, regLog, dispLog, dqVars, selVars, tapVars, extVars>>

(* a subscriber drops its receiver *)
DropReceiver ==
    \E c \in ChanIds :
        /\ connected[c]
        /\ connected' = [connected EXCEPT ![c] = FALSE]
        /\ UNCHANGED <<recv_map, chans, disp, regLog, dispLog, received, dqVars, selVars, tapVars, extVars>>

NextDispatch == Register \/ Dispatch \/ DispatchResume \/ Receive \/ DropReceiver

SpecDispatch == InitDispatch /\ [][NextDispatch]_vars

----------------------------------------------------------------------------
(* TapInterface (src/protocols/ether.rs): the reader thread of start(), the
   relay threads of writer(), the kernel's side of the TAP, the servers
   sending on their writer() endpoints and the subscribers *)

(* the servers have registered before start(): ARP and IPv6, nobody for IPv4 *)
InitTap ==
    /\ Bounded(ChanCap) /\ QueueIdle /\ TapIdle /\ ExtIdle
    /\ recv_map = register(register(RecvSenderMap_new, Arp, "s1"), Ipv6, "s2")
    /\ chans = [c \in ChanIds |-> <<>>]
    /\ connected = [c \in ChanIds |-> TRUE]
    /\ disp = None /\ regLog = <<>> /\ dispLog = <<>>
    /\ received = [c \in ChanIds |-> <<>>]

Sent == LET n(w) == Len(sentLog[w]) IN n("w1") + n("w2")

(* a frame arrives at the TAP, as one of at most limit frames *)
TapArriveUpTo(limit) ==
    \E b \in TapInputs(Len(readLog) + Len(tapIn) + 1) :
        /\ Len(readLog) + Len(tapIn) < limit
        /\ tapIn' = Append(tapIn, b)
        /\ UNCHANGED <<readLog, tapOut, write_chan, pipe, alerter, relay, rd, sentLog,
                       mapVars, dqVars, selVars, extVars>>

TapArrive == TapArriveUpTo(MaxIn)

(* frames enough to fill a subscriber's channel and leave the reader with
   one more in its hands *)
TapArriveBurst == TapArriveUpTo(cap + 1)

(* a server sends a frame on its writer() endpoint: the send blocks while the
   alerter channel is full and fails once the relay thread is gone *)
WriterSendOn(w) ==
    /\ Sent < MaxOut
    /\ relay[w].pc # "panicked"
    /\ Len(alerter[w]) < cap
    /\ alerter' = [alerter EXCEPT ![w] = Append(@, OutFrame(Sent + 1))]
    /\ sentLog' = [sentLog EXCEPT ![w] = Append(@, OutFrame(Sent + 1))]
    /\ UNCHANGED <<tapIn, readLog, tapOut, write_chan, pipe, relay, rd,
                   mapVars, dqVars, selVars, extVars>>

WriterSend == \E w \in Writers : WriterSendOn(w)

(* writer(), the relay loop: let frame = alerter_receiver.recv().unwrap(); *)
RelayRecv(w) ==
    /\ relay[w].pc = "recv"
    /\ alerter[w] # <<>>
    /\ relay' = [relay EXCEPT ![w] = [pc |-> "send", frame |-> Some(Head(alerter[w]))]]
    /\ alerter' = [alerter EXCEPT ![w] = Tail(@)]
    /\ UNCHANGED <<tapIn, readLog, tapOut, write_chan, pipe, rd, sentLog,
                   mapVars, dqVars, selVars, extVars>>

(* a relay that signals the pipe without queueing the frame *)
RelaySend_skips_channel(w) ==
    /\ relay[w].pc = "send"
    /\ Len(write_chan) < cap
    /\ relay' = [relay EXCEPT ![w] = [pc |-> "alert", frame |-> None]]
    /\ UNCHANGED <<tapIn, readLog, tapOut, write_chan, pipe, alerter, rd, sentLog,
                   mapVars, dqVars, selVars, extVars>>

(* sender.send(frame).unwrap(): blocks while the outbound channel is full *)
RelaySend(w) ==
    /\ relay[w].pc = "send"
    /\ Len(write_chan) < cap
    /\ write_chan' = Append(write_chan, relay[w].frame[1])
    /\ relay' = [relay EXCEPT ![w] = [pc |-> "alert", frame |-> None]]
    /\ UNCHANGED <<tapIn, readLog, tapOut, pipe, alerter, rd, sentLog,
                   mapVars, dqVars, selVars, extVars>>

RelayAlert_twice(w) ==
    /\ relay[w].pc = "alert"
    /\ IF rd.pc = "panicked"
       THEN /\ relay' = [relay EXCEPT ![w] = [@ EXCEPT !.pc = "panicked"]]
            /\ UNCHANGED pipe
       ELSE /\ pipe' = pipe + 2
            /\ relay' = [relay EXCEPT ![w] = [@ EXCEPT !.pc = "recv"]]
    /\ UNCHANGED <<tapIn, readLog, tapOut, write_chan, alerter, rd, sentLog,
                   mapVars, dqVars, selVars, extVars>>

(* write(&mut write_alert_write, &[1u8]).unwrap(): one byte into the pipe; the
   write fails, and the relay thread panics, once the reader thread has
   dropped the read end *)
RelayAlert(w) ==
    /\ relay[w].pc = "alert"
    /\ IF rd.pc = "panicked"
       THEN /\ relay' = [relay EXCEPT ![w] = [@ EXCEPT !.pc = "panicked"]]
            /\ UNCHANGED pipe
       ELSE /\ pipe' = pipe + 1
            /\ relay' = [relay EXCEPT ![w] = [@ EXCEPT !.pc = "recv"]]
    /\ UNCHANGED <<tapIn, readLog, tapOut, write_chan, alerter, rd, sentLog,
                   mapVars, dqVars, selVars, extVars>>

Relay == \E w \in Writers : RelayRecv(w) \/ RelaySend(w) \/ RelayAlert(w)

(* select(2) on the TAP and the read end of the pipe: blocks until one is
   readable and reports which are *)
RdSelect ==
    /\ rd.pc = "select"
    /\ tapIn # <<>> \/ pipe > 0
    /\ rd' = [pc |-> IF tapIn # <<>> THEN "tap" ELSE "pipe",
              tap |-> tapIn # <<>>, pipe |-> pipe > 0, frame |-> None]
    /\ UNCHANGED <<tapIn, readLog, tapOut, write_chan, pipe, alerter, relay, sentLog,
                   mapVars, dqVars, selVars, extVars>>

(* the TAP branch: read one frame and parse it; unwrap() panics on a parse error *)
RdTapRead ==
    /\ rd.pc = "tap"
    /\ tapIn # <<>>
    /\ tapIn' = Tail(tapIn)
    /\ readLog' = Append(readLog, Head(tapIn))
    /\ LET r == frame(Head(tapIn)) IN
        rd' = IF r.ok THEN [rd EXCEPT !.pc = "dispatch", !.frame = Some(r.v)]
              ELSE [rd EXCEPT !.pc = "panicked"]
    /\ UNCHANGED <<tapOut, write_chan, pipe, alerter, relay, sentLog,
                   mapVars, dqVars, selVars, extVars>>

(* a reader that looks at the pipe only in an iteration that read no frame *)
RdDispatch_skips_pipe ==
    /\ rd.pc = "dispatch"
    /\ LET r == dispatch(recv_map, chans, connected, rd.frame[1]) IN
        /\ r.res # "Block"
        /\ chans' = r.chans
        /\ rd' = IF r.res = "Err" THEN [rd EXCEPT !.pc = "panicked", !.frame = None]
                 ELSE RdSelecting
    /\ UNCHANGED <<tapIn, readLog, tapOut, write_chan, pipe, alerter, relay, sentLog,
                   recv_map, connected, disp, regLog, dispLog, received, dqVars, selVars, extVars>>

(* recv_map.dispatch(frame).unwrap(): waits while the subscriber's channel is full *)
RdDispatch ==
    /\ rd.pc = "dispatch"
    /\ LET r == dispatch(recv_map, chans, connected, rd.frame[1]) IN
        /\ r.res # "Block"
        /\ chans' = r.chans
        /\ rd' = IF r.res = "Err" THEN [rd EXCEPT !.pc = "panicked", !.frame = None]
                 ELSE [rd EXCEPT !.pc = IF rd.pipe THEN "pipe" ELSE "select", !.frame = None]
    /\ UNCHANGED <<tapIn, readLog, tapOut, write_chan, pipe, alerter, relay, sentLog,
                   recv_map, connected, disp, regLog, dispLog, received, dqVars, selVars, extVars>>

(* the pipe branch: read one byte, ... *)
RdPipeRead ==
    /\ rd.pc = "pipe"
    /\ pipe > 0
    /\ pipe' = pipe - 1
    /\ rd' = [rd EXCEPT !.pc = "recv"]
    /\ UNCHANGED <<tapIn, readLog, tapOut, write_chan, alerter, relay, sentLog,
                   mapVars, dqVars, selVars, extVars>>

(* ... let frame = write_receiver.recv().unwrap(); ... *)
RdRecv ==
    /\ rd.pc = "recv"
    /\ write_chan # <<>>
    /\ write_chan' = Tail(write_chan)
    /\ rd' = [rd EXCEPT !.pc = "write", !.frame = Some(Head(write_chan))]
    /\ UNCHANGED <<tapIn, readLog, tapOut, pipe, alerter, relay, sentLog,
                   mapVars, dqVars, selVars, extVars>>

(* ... tap_dev.write(&frame.encode()).unwrap(); and back to select *)
RdTapWrite ==
    /\ rd.pc = "write"
    /\ tapOut' = Append(tapOut, Frame_encode(rd.frame[1]))
    /\ rd' = RdSelecting
    /\ UNCHANGED <<tapIn, readLog, write_chan, pipe, alerter, relay, sentLog,
                   mapVars, dqVars, selVars, extVars>>

Reader == RdSelect \/ RdTapRead \/ RdDispatch \/ RdPipeRead \/ RdRecv \/ RdTapWrite

NextTap == TapArrive \/ WriterSend \/ Relay \/ Reader \/ Receive

SpecTap == InitTap /\ [][NextTap]_vars

(* the inbound half alone: no server sends, so the pipe stays empty and the
   reader only takes the TAP branch *)
NextTapIn == TapArriveBurst \/ RdSelect \/ RdTapRead \/ RdDispatch \/ Receive

SpecTapIn == InitTap /\ [][NextTapIn]_vars

(* the threads are scheduled fairly and the subscribers keep receiving *)
SpecTapFair ==
    /\ SpecTap
    /\ WF_vars(Reader)
    /\ \A w \in Writers : WF_vars(RelayRecv(w) \/ RelaySend(w) \/ RelayAlert(w))
    /\ WF_vars(Receive)

----------------------------------------------------------------------------
(* Reading the history *)

RECURSIVE SelectSeq2(_, _)
SelectSeq2(s, kind) ==
    IF s = <<>> THEN <<>>
    ELSE (IF Head(s)[1] = kind THEN <<Head(s)>> ELSE <<>>) \o SelectSeq2(Tail(s), kind)

Pushes(log) == SelectSeq2(log, "push")
Pops(log) == SelectSeq2(log, "pop")

(* every push of the history precedes every pop *)
PushesThenPops(log) ==
    \A a, b \in 1..Len(log) : (log[a][1] = "pop" /\ log[b][1] = "push") => b < a

DistinctDeadlines(ps) ==
    \A a, b \in 1..Len(ps) : a # b => ps[a][2] # ps[b][2]

(* the values of the pushes ps, by increasing deadline and, on equal
   deadlines, by order of insertion *)
RECURSIVE InOrder(_, _)
InOrder(ps, idx) ==
    IF idx = {} THEN <<>>
    ELSE LET m == CHOOSE a \in idx : \A b \in idx :
                      \/ ps[a][2] < ps[b][2]
                      \/ (ps[a][2] = ps[b][2] /\ a <= b)
         IN  <<ps[m][3]>> \o InOrder(ps, idx \ {m})

Expected(ps) == InOrder(ps, 1..Len(ps))

PopsMatch(log) ==
    LET exp == Expected(Pushes(log))
        got == Pops(log)
    IN  \A k \in 1..Len(got) :
            got[k][2] = IF k <= Len(exp) THEN Some(exp[k]) ELSE None

Successful(ps) == {k \in 1..Len(ps) : ps[k][2] # None}

----------------------------------------------------------------------------
(* C1: pushes with pairwise distinct deadlines followed by pops: the values
   come back by increasing deadline whatever the push order, each exactly
   once, and a pop of the emptied queue returns None. *)
C1_PopsInDeadlineOrder ==
    (PushesThenPops(opLog) /\ DistinctDeadlines(Pushes(opLog))) => PopsMatch(opLog)

(* two values pushed out of deadline order, both popped, then a pop of the
   empty queue *)
C1_Witness ==
    /\ PushesThenPops(opLog) /\ DistinctDeadlines(Pushes(opLog))
    /\ Len(Pushes(opLog)) = 2 /\ Len(Pops(opLog)) = 2
    /\ Pushes(opLog)[1][2] > Pushes(opLog)[2][2]
    /\ Pushes(opLog)[1][3] # Pushes(opLog)[2][3]
    /\ Pops(opLog)[1][2] = Some(Pushes(opLog)[2][3])
    /\ Pops(opLog)[2][2] = Some(Pushes(opLog)[1][3])

(* C2: values pushed with the same deadline are all retained and popped in
   insertion order; no push loses a pushed, not yet popped value. *)
C2_TiesAreFifo ==
    /\ Cardinality(DOMAIN items)
         = Len(Pushes(opLog)) - Cardinality(Successful(Pops(opLog)))
    /\ PushesThenPops(opLog) => PopsMatch(opLog)

Selects(log) == SelectSeq2(log, "select")
Fired(log, arm) == {k \in 1..Len(Selects(log)) : Selects(log)[k][2] = arm}

(* C3: the recv_queue arm fires only once the earliest deadline has elapsed:
   the receiver yields exactly that deadline and never yields for an empty
   queue; the arm binds the value stored there and removes exactly that
   entry; each pushed value is delivered exactly once; the arm never fires
   for an empty queue. *)
C3_ArmTakesEarliest ==
    /\ sel.pc # "panicked"
    /\ sel.pc = "waiting" => sel.rcv = receiver(items)
    /\ \A k \in Fired(opLog, "recv_queue") :
        LET e == Selects(opLog)[k][3] IN
            /\ e.before # EmptyMap
            /\ e.rcv = Some(Min(DOMAIN e.before))
            /\ e.at >= e.rcv[1]
            /\ e.bound = Some(e.before[e.rcv[1]])
            /\ e.after = [t \in (DOMAIN e.before) \ {e.rcv[1]} |-> e.before[t]]

C3_EachPushDeliveredOnce ==
    /\ C3_ArmTakesEarliest
    /\ Len(Pushes(opLog)) = Cardinality(Fired(opLog, "recv_queue")) + Cardinality(DOMAIN items)

(* what remains of C3 when no two pushes share a deadline that is still queued *)
C3_HoldsWithoutOverwrite ==
    /\ C3_ArmTakesEarliest
    /\ DistinctDeadlines(Pushes(opLog)) =>
         Len(Pushes(opLog)) = Cardinality(Fired(opLog, "recv_queue")) + Cardinality(DOMAIN items)

(* C4: every invocation runs exactly one handler; a recv(channel) arm leaves
   the delay queue as it was; the default arm runs only when the timeout has
   passed with no receiver ready. *)
C4_OneArmAndFrame ==
    /\ sel.pc # "panicked"
    /\ Len(Selects(opLog)) = sel.n - (IF sel.pc = "waiting" THEN 1 ELSE 0)
    /\ \A k \in Fired(opLog, "recv") :
        LET e == Selects(opLog)[k][3] IN
            /\ e.after = e.before
            /\ e.chanBefore # <<>>
            /\ e.bound = Some(Head(e.chanBefore))
    /\ \A k \in Fired(opLog, "default") :
        LET e == Selects(opLog)[k][3] IN
            /\ e.after = e.before /\ e.chanAfter = e.chanBefore
            /\ e.at >= e.start + e.timeout
            /\ e.chanBefore = <<>>
            /\ (e.rcv = None \/ e.rcv[1] > e.at)

(* the channel is ready before the queue's earliest deadline, the recv arm
   runs, and the next invocation delivers the entry that was pending *)
C4_Witness ==
    /\ Len(Selects(opLog)) = 2
    /\ Selects(opLog)[1][2] = "recv" /\ Selects(opLog)[2][2] = "recv_queue"
    /\ LET e == Selects(opLog)[1][3]
           f == Selects(opLog)[2][3]
       IN  /\ e.rcv # None /\ e.rcv[1] > e.at
           /\ f.before = e.before
           /\ f.rcv = e.rcv

(* the sender most recently registered for key in the register calls regs *)
RECURSIVE LastReg(_, _)
LastReg(regs, key) ==
    IF regs = <<>> THEN None
    ELSE IF regs[Len(regs)][1] = key THEN Some(regs[Len(regs)][2])
    ELSE LastReg(SubSeq(regs, 1, Len(regs) - 1), key)

Lookup(map, key) == IF key \in DOMAIN map THEN Some(map[key]) ELSE None

(* the items that reached channel c: those taken from it, then those queued in it *)
Reached(c) == received[c] \o chans[c]

Occurrences(item) ==
    {<<c, k>> \in ChanIds \X (1..(MaxItems + 1)) :
        k <= Len(Reached(c)) /\ Reached(c)[k].id = item.id}

(* C5: each key maps to the sender of the latest register call for it; an
   item is sent only to the sender that was the latest registrant of its key
   when it was dispatched; registering a key changes no other key. *)
C5_LastRegistrantWins ==
    /\ \A key \in Type : Lookup(recv_map, key) = LastReg(regLog, key)
    /\ \A c \in ChanIds : \A k \in 1..Len(Reached(c)) :
        LET item == Reached(c)[k] IN
            LastReg(SubSeq(regLog, 1, item.stamp), item.ethertype) = Some(c)

(* a key registered twice, with two senders; an item dispatched after each
   call reached the sender registered at the time *)
C5_Witness ==
    \E a, b \in 1..Len(regLog) :
        /\ a < b /\ regLog[a][1] = regLog[b][1] /\ regLog[a][2] # regLog[b][2]
        /\ \E x \in 1..Len(Reached(regLog[a][2])) :
              /\ Reached(regLog[a][2])[x].ethertype = regLog[a][1]
              /\ Reached(regLog[a][2])[x].stamp < b
        /\ \E y \in 1..Len(Reached(regLog[b][2])) :
              /\ Reached(regLog[b][2])[y].ethertype = regLog[b][1]
              /\ Reached(regLog[b][2])[y].stamp >= b

(* C6: a dispatched item is delivered at most once: exactly once, to the
   sender registered for its key, when there is one; never, to nobody and not
   to a later registrant either, when there is none, and dispatch returns Ok. *)
C6_AtMostOnce ==
    /\ \A c \in ChanIds : \A k \in 1..Len(Reached(c)) :
          \E d \in 1..Len(dispLog) : dispLog[d][1] = Reached(c)[k]
    /\ \A d \in 1..Len(dispLog) :
        LET item == dispLog[d][1]
            res == dispLog[d][2]
            to == LastReg(SubSeq(regLog, 1, item.stamp), item.ethertype)
        IN  /\ to = None => (Occurrences(item) = {} /\ res = "Ok")
            /\ (to # None /\ res = "Ok") =>
                  (Cardinality(Occurrences(item)) = 1 /\ \A o \in Occurrences(item) : o[1] = to[1])
            /\ res = "Err" => (Occurrences(item) = {} /\ to # None /\ ~connected[to[1]])

(* an item was dispatched for a key nobody had registered and dispatch
   returned Ok; the key was registered afterwards, a later item of that key
   was delivered, and the first item was not *)
C6_Witness ==
    \E d, e \in 1..Len(dispLog) :
        /\ d < e /\ dispLog[d][1].ethertype = dispLog[e][1].ethertype
        /\ LastReg(SubSeq(regLog, 1, dispLog[d][1].stamp), dispLog[d][1].ethertype) = None
        /\ dispLog[d][2] = "Ok" /\ Occurrences(dispLog[d][1]) = {}
        /\ Lookup(recv_map, dispLog[d][1].ethertype) # None
        /\ Cardinality(Occurrences(dispLog[e][1])) = 1

(* the frames of the reads log that parse, in the order read *)
RECURSIVE Parsed(_)
Parsed(log) ==
    IF log = <<>> THEN <<>>
    ELSE (IF frame(Head(log)).ok THEN <<frame(Head(log)).v>> ELSE <<>>) \o Parsed(Tail(log))

RECURSIVE FramesFor(_, _)
FramesFor(fs, c) ==
    IF fs = <<>> THEN <<>>
    ELSE (IF Lookup(recv_map, dispatch_key(Head(fs))) = Some(c) THEN <<Head(fs)>> ELSE <<>>)
         \o FramesFor(Tail(fs), c)

(* the frame the reader thread holds for channel c while it waits in dispatch *)
InDispatch(c) ==
    IF rd.pc = "dispatch" /\ Lookup(recv_map, dispatch_key(rd.frame[1])) = Some(c)
    THEN rd.frame ELSE <<>>

(* C7: the frames read from the TAP whose EtherType has a subscriber reach
   that subscriber's channel exactly once and in the order read; no channel
   holds more than its capacity and the frame the reader could not yet place
   is kept, not discarded. *)
C7_InboundInOrder ==
    \A c \in ChanIds :
        /\ Len(chans[c]) <= cap
        /\ Reached(c) \o InDispatch(c) = FramesFor(Parsed(readLog), c)

(* the subscriber's channel is full of frames that differ, the subscriber has
   taken none, and the reader thread waits in dispatch with one more *)
C7_Witness ==
    /\ rd.pc = "dispatch"
    /\ InDispatch("s1") # <<>>
    /\ Len(chans["s1"]) = cap /\ cap > 1
    /\ \A i, j \in 1..cap : i # j => chans["s1"][i] # chans["s1"][j]
    /\ dispatch(recv_map, chans, connected, rd.frame[1]).res = "Block"

(* C8 as stated: the pipe holds as many unread bytes as the outbound channel
   holds frames, in every reachable state. *)
C8_PipeEqualsQueue == pipe = Len(write_chan)

RelaysAt(pcs) == {w \in Writers : relay[w].pc \in pcs}

(* C8 as amended: the pipe never holds more unread bytes than the outbound
   channel holds frames, and holds as many whenever every relay thread waits
   on its alerter channel and the reader is not between its byte read and
   its frame pop. *)
C8_PipeAtMostQueue ==
    /\ pipe <= Len(write_chan)
    /\ (RelaysAt({"recv", "send"}) = Writers /\ rd.pc # "recv") => pipe = Len(write_chan)

(* a relay has sent its frame to the outbound channel and not yet written
   its byte to the pipe *)
C8_Witness ==
    /\ RelaysAt({"alert"}) # {}
    /\ pipe = 0 /\ Len(write_chan) = 1

(* the frames a writer's endpoint was given that the TAP has received, as bytes *)
Written(n) == \E k \in 1..Len(tapOut) : tapOut[k] = Frame_encode(OutFrame(n))

(* C9: every frame sent on a writer() endpoint is eventually written to the
   TAP, under fair scheduling. *)
C9_EventuallyWritten == \A n \in 1..MaxOut : (Sent >= n) ~> Written(n)

(* what holds of C9 whatever the reader does: the TAP receives only frames
   that were sent, each at most once, and those of one endpoint in the order
   they were sent on it *)
C9_WrittenOnceInOrder ==
    /\ \A k \in 1..Len(tapOut) : \E n \in 1..Sent : tapOut[k] = Frame_encode(OutFrame(n))
    /\ \A j, k \in 1..Len(tapOut) : j # k => tapOut[j] # tapOut[k]
    /\ \A w \in Writers : \A a, b \in 1..Len(sentLog[w]) :
          \A j, k \in 1..Len(tapOut) :
             (a < b /\ tapOut[j] = Frame_encode(sentLog[w][a])
                    /\ tapOut[k] = Frame_encode(sentLog[w][b])) => j < k
    /\ \A w \in Writers : \A a, b \in 1..Len(sentLog[w]) :
          (a < b /\ \E k \in 1..Len(tapOut) : tapOut[k] = Frame_encode(sentLog[w][b]))
             => \E j \in 1..Len(tapOut) : tapOut[j] = Frame_encode(sentLog[w][a])

(* C10: a frame read from the TAP that fails Ethernet parsing is dropped and
   the reader thread keeps running. *)
C10_ReaderSurvivesBadFrame ==
    (\E k \in 1..Len(readLog) : ~frame(readLog[k]).ok) => rd.pc # "panicked"

----------------------------------------------------------------------------
(* The ARP responder (src/protocols/arp.rs) *)

MaxArpIn == 2
MaxAdds == 2

Request == 1
Reply == 2
ArpPacketOpcode == {Request, Reply}

AddrA == <<10, 0, 0, 1>>
AddrB == <<10, 0, 0, 2>>
PeerIp == <<10, 0, 0, 9>>
Ipv4Addrs == {AddrA, AddrB}
ZeroMac == <<0, 0, 0, 0, 0, 0>>

(* ArpPacket::encode: hardware type 1, protocol type Ipv4, lengths 6 and 4,
   the opcode, then the four addresses *)
ArpPacket_encode(p) ==
    be_u16(1) \o be_u16(Ipv4) \o <<6>> \o <<4>> \o be_u16(p.opcode)
        \o p.src_ether \o p.src_ipv4 \o p.dest_ether \o p.dest_ipv4

(* arp_packet(input): each field is verified in turn; what follows the last
   address is ignored *)
arp_packet(input) ==
    IF Len(input) < 2 \/ input[1] * 256 + input[2] # 1 THEN Err
    ELSE IF Len(input) < 4 \/ input[3] * 256 + input[4] # Ipv4 THEN Err
    ELSE IF Len(input) < 5 \/ input[5] # 6 THEN Err
    ELSE IF Len(input) < 6 \/ input[6] # 4 THEN Err
    ELSE IF Len(input) < 8 \/ input[7] * 256 + input[8] \notin ArpPacketOpcode THEN Err
    ELSE IF Len(input) < 28 THEN Err
    ELSE Ok([opcode |-> input[7] * 256 + input[8],
             src_ether |-> SubSeq(input, 9, 14), src_ipv4 |-> SubSeq(input, 15, 18),
             dest_ether |-> SubSeq(input, 19, 24), dest_ipv4 |-> SubSeq(input, 25, 28)])

ArpReply_to_sender_ip(packet, src_ether) ==
    [dest |-> packet.src_ether, src |-> src_ether, ethertype |-> Arp,
     payload |-> ArpPacket_encode([opcode |-> Reply, src_ether |-> src_ether,
                                   src_ipv4 |-> packet.src_ipv4,
                                   dest_ether |-> packet.src_ether,
                                   dest_ipv4 |-> packet.dest_ipv4])]

(* the frame the actor builds for a packet it answers *)
ArpReply(packet, src_ether) ==
    [dest |-> packet.src_ether, src |-> src_ether, ethertype |-> Arp,
     payload |-> ArpPacket_encode([opcode |-> Reply, src_ether |-> src_ether,
                                   src_ipv4 |-> packet.dest_ipv4,
                                   dest_ether |-> packet.src_ether,
                                   dest_ipv4 |-> packet.src_ipv4])]

(* the ARP payloads the Ethernet layer hands over: requests and replies for
   either address, a packet with opcode 3 and one cut short *)
ArpPackets ==
    { [opcode |-> o, src_ether |-> PeerMac, src_ipv4 |-> PeerIp,
       dest_ether |-> ZeroMac, dest_ipv4 |-> a] : o \in ArpPacketOpcode, a \in Ipv4Addrs }

ArpPayloads ==
    { ArpPacket_encode(p) : p \in ArpPackets }
        \cup { be_u16(1) \o be_u16(Ipv4) \o <<6, 4>> \o be_u16(3) \o Zeros(20),
               be_u16(1) \o be_u16(Ipv4) \o <<6, 4>> \o be_u16(Request) \o PeerMac,
               (* a request with a wrong hardware type, protocol type, hlen, plen *)
               be_u16(6) \o be_u16(Ipv4) \o <<6, 4>> \o be_u16(Request) \o Zeros(20),
               be_u16(1) \o be_u16(Ipv6) \o <<6, 4>> \o be_u16(Request) \o Zeros(20),
               be_u16(1) \o be_u16(Ipv4) \o <<8, 4>> \o be_u16(Request) \o Zeros(20),
               be_u16(1) \o be_u16(Ipv4) \o <<6, 16>> \o be_u16(Request) \o Zeros(20) }

InitArp == Bounded(ChanCap) /\ QueueIdle /\ MapIdle /\ TapIdle /\ ExtIdle

(* the Ethernet layer dispatches an ARP frame to the actor's channel *)
ArpArrive ==
    \E b \in ArpPayloads :
        /\ Len(arpLog) + Len(arp_recv) + (IF arp.pc = "recv" THEN 0 ELSE 1) < MaxArpIn
        /\ Len(arp_recv) < cap
        /\ arp_recv' = Append(arp_recv, [dest |-> HostMac, src |-> PeerMac,
                                         ethertype |-> Arp, payload |-> b])
        /\ UNCHANGED <<addresses, arp, arp_sent, arpLog, addLog, coreVars, ip6Vars, trVars, pfVars, capVars>>

(* ArpServer::add, called from any thread: insert under the write lock *)
Add_replace ==
    \E a \in Ipv4Addrs :
        /\ Len(addLog) < MaxAdds
        /\ addresses' = {a}
        /\ addLog' = Append(addLog, a)
        /\ UNCHANGED <<arp_recv, arp, arp_sent, arpLog, coreVars, ip6Vars, trVars, pfVars, capVars>>

Add ==
    \E a \in Ipv4Addrs :
        /\ Len(addLog) < MaxAdds
        /\ addresses' = addresses \cup {a}
        /\ addLog' = Append(addLog, a)
        /\ UNCHANGED <<arp_recv, arp, arp_sent, arpLog, coreVars, ip6Vars, trVars, pfVars, capVars>>

ArpRecv_drops_malformed ==
    /\ arp.pc = "recv"
    /\ arp_recv # <<>>
    /\ arp_recv' = Tail(arp_recv)
    /\ LET r == arp_packet(Head(arp_recv).payload) IN
          arp' = IF r.ok THEN [pc |-> "check", packet |-> Some(r.v), start |-> addresses,
                              seen |-> {}]
                 ELSE ArpReceiving
    /\ UNCHANGED <<addresses, arp_sent, arpLog, addLog, coreVars, ip6Vars, trVars, pfVars, capVars>>

(* receiver.recv().unwrap(); arp_packet(&frame.payload).unwrap() *)
ArpRecv ==
    /\ arp.pc = "recv"
    /\ arp_recv # <<>>
    /\ arp_recv' = Tail(arp_recv)
    /\ LET r == arp_packet(Head(arp_recv).payload) IN
          arp' = IF r.ok THEN [pc |-> "check", packet |-> Some(r.v), start |-> addresses,
                              seen |-> {}]
                 ELSE [arp EXCEPT !.pc = "panicked"]
    /\ UNCHANGED <<addresses, arp_sent, arpLog, addLog, coreVars, ip6Vars, trVars, pfVars, capVars>>

(* if addresses.read().unwrap().contains(&packet.dest_ipv4) { .. } *)
ArpCheck ==
    /\ arp.pc = "check"
    /\ IF arp.packet[1].dest_ipv4 \in addresses
       THEN /\ arp' = [arp EXCEPT !.pc = "send", !.seen = addresses]
            /\ UNCHANGED arpLog
       ELSE /\ arp' = ArpReceiving
            /\ arpLog' = Append(arpLog, [packet |-> arp.packet[1], start |-> arp.start,
                                         seen |-> addresses, sent |-> <<>>])
    /\ UNCHANGED <<arp_recv, addresses, arp_sent, addLog, coreVars, ip6Vars, trVars, pfVars, capVars>>

(* write_sender.send(frame).unwrap() *)
ArpSend ==
    /\ arp.pc = "send"
    /\ LET f == ArpReply(arp.packet[1], HostMac) IN
          /\ arp_sent' = Append(arp_sent, f)
          /\ arpLog' = Append(arpLog, [packet |-> arp.packet[1], start |-> arp.start,
                                       seen |-> arp.seen, sent |-> <<f>>])
    /\ arp' = ArpReceiving
    /\ UNCHANGED <<arp_recv, addresses, addLog, coreVars, ip6Vars, trVars, pfVars, capVars>>

NextArp == ArpArrive \/ Add \/ ArpRecv \/ ArpCheck \/ ArpSend

SpecArp == InitArp /\ [][NextArp]_vars

(* the replies the processed packets call for, in the order of processing *)
RECURSIVE Flatten(_)
Flatten(ss) == IF ss = <<>> THEN <<>> ELSE Head(ss) \o Flatten(Tail(ss))

(* the frame a packet targeting an owned address must be answered with *)
ReplyIsFor(f, p) ==
    /\ f.dest = p.src_ether /\ f.src = HostMac /\ f.ethertype = Arp
    /\ arp_packet(f.payload) =
          Ok([opcode |-> Reply, src_ether |-> HostMac, src_ipv4 |-> p.dest_ipv4,
              dest_ether |-> p.src_ether, dest_ipv4 |-> p.src_ipv4])

(* C11: a processed ARP packet whose dest_ipv4 is in the address set when the
   actor looks it up is answered with exactly one frame (to the sender's MAC,
   from the own MAC, type Arp, payload a Reply with the addresses swapped);
   one whose dest_ipv4 is not in the set is answered with nothing; the
   replies leave in the order the packets were received. *)
C11_RepliesMatchRequests ==
    /\ \A k \in 1..Len(arpLog) :
          IF arpLog[k].packet.dest_ipv4 \in arpLog[k].seen
          THEN Len(arpLog[k].sent) = 1 /\ ReplyIsFor(arpLog[k].sent[1], arpLog[k].packet)
          ELSE arpLog[k].sent = <<>>
    /\ arp_sent = Flatten([k \in 1..Len(arpLog) |-> arpLog[k].sent])

(* two packets for different owned addresses were answered, in order *)
C11_Witness ==
    /\ Len(arp_sent) = 2
    /\ arp_packet(arp_sent[1].payload).v.src_ipv4 # arp_packet(arp_sent[2].payload).v.src_ipv4

(* C12: only a packet with opcode Request is ever answered. *)
C12_RepliesOnlyToRequests ==
    \A k \in 1..Len(arpLog) : arpLog[k].sent # <<>> => arpLog[k].packet.opcode = Request

Added == {addLog[k] : k \in 1..Len(addLog)}

(* C13: with add() running beside the actor, the address set only grows;
   every packet whose processing starts after add(a) returned and that
   targets a is answered; no reply names an address that was never added. *)
C13_AddressSetGrowsAndAnswers ==
    /\ [][addresses \subseteq addresses']_vars
    /\ [](/\ \A k \in 1..Len(arpLog) :
               arpLog[k].packet.dest_ipv4 \in arpLog[k].start => arpLog[k].sent # <<>>
          /\ \A k \in 1..Len(arp_sent) :
               arp_packet(arp_sent[k].payload).v.src_ipv4 \in Added)

(* add(a) returned while the actor was between taking a packet for a and
   looking a up, after an earlier packet was answered for another address *)
C13_Witness ==
    /\ Len(addLog) = 2
    /\ \E k \in 1..Len(arpLog) :
          /\ arpLog[k].packet.dest_ipv4 \notin arpLog[k].start
          /\ arpLog[k].packet.dest_ipv4 \in arpLog[k].seen
          /\ arpLog[k].sent # <<>>
    /\ \E k \in 1..Len(arpLog) : arpLog[k].packet.dest_ipv4 \in arpLog[k].start

----------------------------------------------------------------------------
(* The IPv6 server (src/protocols/ipv6/mod.rs, src/protocols/ipv6/icmpv6.rs) *)

Panic == [ok |-> FALSE, panic |-> TRUE]

(* Err(anyhow!("icmpv6 checksum invalid: ...")) *)
ChecksumInvalid == [ok |-> FALSE, msg |-> "icmpv6 checksum invalid"]

be_u32(v) == <<v \div 16777216, (v \div 65536) % 256, (v \div 256) % 256, v % 256>>

(* EncodeTo for Address: eight groups, each big-endian *)
RECURSIVE Address_encode(_)
Address_encode(a) == IF a = <<>> THEN <<>> ELSE be_u16(Head(a)) \o Address_encode(Tail(a))

(* address(input): eight big-endian u16 groups from the first 16 bytes *)
ipv6_address(input) ==
    IF Len(input) < 16 THEN Err
    ELSE Ok([i \in 1..8 |-> input[2 * i - 1] * 256 + input[2 * i]])

Drop(seq, n) == SubSeq(seq, n + 1, Len(seq))

(* extension_header: the next header, the length byte, then header_len + 6
   bytes are skipped by slicing (a panic when the input is shorter); the
   header counts for (header_len + 8) as u16, computed in u8 *)
extension_header(input, checks) ==
    IF Len(input) < 2 THEN Err
    ELSE LET header_len == input[2] IN
         IF header_len + 6 > Len(input) - 2 THEN Panic
         ELSE IF header_len + 8 > 255 /\ checks THEN Panic
         ELSE Ok([next_header |-> input[1], num_header_bytes |-> (header_len + 8) % 256,
                  rest |-> Drop(input, 2 + header_len + 6)])

(* packet(input): version 6, traffic class, flow label, payload length, next
   header, hop limit, the two addresses, one hop-by-hop header if announced,
   then payload_length bytes of payload; what follows is ignored.  checks:
   the build panics on integer overflow (debug) or wraps (release) *)
ipv6_packet(input, checks) ==
    IF Len(input) < 4 \/ input[1] \div 16 # 6 THEN Err
    ELSE IF Len(input) < 40 THEN Err
    ELSE LET base == [traffic_class |-> (input[1] % 16) * 16 + input[2] \div 16,
                      flow_label |-> (input[2] % 16) * 65536 + input[3] * 256 + input[4],
                      hop_limit |-> input[8],
                      src |-> ipv6_address(SubSeq(input, 9, 24)).v,
                      dest |-> ipv6_address(SubSeq(input, 25, 40)).v]
             payload_length == input[5] * 256 + input[6]
             next_header == input[7]
             rest == Drop(input, 40)
             finish(nh, len, ext, r) ==
                 IF Len(r) < len THEN Err
                 ELSE Ok([traffic_class |-> base.traffic_class,
                          flow_label |-> base.flow_label, next_header |-> nh,
                          hop_limit |-> base.hop_limit, src |-> base.src,
                          dest |-> base.dest, extension_headers |-> ext,
                          payload |-> SubSeq(r, 1, len)])
         IN IF next_header = HopByHop
            THEN LET e == extension_header(rest, checks) IN
                 IF ~e.ok THEN e
                 ELSE IF payload_length < e.v.num_header_bytes /\ checks THEN Panic
                 ELSE finish(e.v.next_header,
                             (payload_length - e.v.num_header_bytes) % 65536,
                             <<"HopByHop">>, e.v.rest)
            ELSE finish(next_header, payload_length, <<>>, rest)

(* the sum of the big-endian 16-bit words of an even-length buffer *)
RECURSIVE WordSum(_)
WordSum(buf) ==
    IF buf = <<>> THEN 0 ELSE buf[1] * 256 + buf[2] + WordSum(Drop(buf, 2))

RECURSIVE Fold(_)
Fold(checksum) ==
    IF checksum > 65535 THEN Fold((checksum % 65536) + (checksum \div 65536)) ELSE checksum

(* packet_checksum: the one's complement of the folded sum over the
   pseudo-header (src, dest, length, three zero bytes, 58) and the message;
   an odd-length buffer is read one byte past its end *)
packet_checksum(input, pseudo_header) ==
    LET checksummed_buffer ==
            Address_encode(pseudo_header.src) \o Address_encode(pseudo_header.dest)
                \o be_u32(pseudo_header.length) \o <<0, 0>> \o <<0>> \o <<Ipv6Icmp>> \o input
    IN IF Len(checksummed_buffer) % 2 = 1 THEN Panic
       ELSE Ok(65535 - Fold(WordSum(checksummed_buffer)))

RouterSolicitation == 133
NeighborSolicitation == 135
NeighborAdvertisement == 136
MldV2Report == 143

SourceLinkLayerAddress == 1
TargetLinkLayerAddress == 2
Nonce == 14

(* many0(neighbor_solicitation_option) followed by eof: an option is a type,
   a length and a MAC address or a nonce of length * 8 - 2 bytes; an unknown
   type is todo!(); a failing option ends the list, and eof then fails on
   whatever is left *)
RECURSIVE neighbor_solicitation_options(_, _)
neighbor_solicitation_options(input, checks) ==
    IF input = <<>> THEN Ok(<<>>)
    ELSE IF Len(input) < 2 THEN Err
    ELSE LET option_type == input[1]
             length == input[2]
             then(opt, n) ==
                 LET r == neighbor_solicitation_options(Drop(input, n), checks) IN
                     IF r.ok THEN Ok(<<opt>> \o r.v) ELSE r
         IN IF option_type \in {SourceLinkLayerAddress, TargetLinkLayerAddress}
            THEN IF Len(input) < 8 THEN Err
                 ELSE then(<<option_type, SubSeq(input, 3, 8)>>, 8)
            ELSE IF option_type = Nonce
            THEN IF length = 0 THEN (IF checks THEN Panic ELSE Err)
                 ELSE IF Len(input) < length * 8 THEN Err
                 ELSE then(<<option_type, SubSeq(input, 3, length * 8)>>, length * 8)
            ELSE Panic

(* many0(mld_v2_address_record) followed by eof: a record type in 1..6, three
   bytes skipped by slicing, an address *)
RECURSIVE mld_v2_address_records(_)
mld_v2_address_records(input) ==
    IF input = <<>> THEN Ok(<<>>)
    ELSE IF input[1] \notin 1..6 THEN Err
    ELSE IF Len(input) - 1 < 3 THEN Panic
    ELSE IF Len(input) < 20 THEN Err
    ELSE LET r == mld_v2_address_records(Drop(input, 20)) IN
         IF r.ok THEN Ok(<<[record_type |-> input[1],
                            address |-> ipv6_address(SubSeq(input, 5, 20)).v]>> \o r.v)
         ELSE r

(* icmpv6::packet(input, pseudo_header): the checksum must be zero; then the
   type byte selects the variant; code, checksum and the next four bytes are
   skipped by slicing; any other type is todo!() *)
icmpv6_packet(input, pseudo_header, checks) ==
    LET checksum == packet_checksum(input, pseudo_header) IN
    IF ~checksum.ok THEN Panic
    ELSE IF checksum.v # 0 THEN ChecksumInvalid
    ELSE IF input = <<>> THEN Err
    ELSE LET packet_type == input[1]
             rest == Drop(input, 1)
         IN IF packet_type = RouterSolicitation THEN Ok([type |-> packet_type])
            ELSE IF packet_type \in {NeighborSolicitation, NeighborAdvertisement}
            THEN IF Len(rest) < 7 THEN Panic
                 ELSE IF Len(rest) < 23 THEN Err
                 ELSE LET o == neighbor_solicitation_options(Drop(rest, 23), checks) IN
                      IF ~o.ok THEN o
                      ELSE Ok([type |-> packet_type,
                               address |-> ipv6_address(SubSeq(rest, 8, 23)).v,
                               options |-> o.v])
            ELSE IF packet_type = MldV2Report
            THEN IF Len(rest) < 7 THEN Panic
                 ELSE LET r == mld_v2_address_records(Drop(rest, 7)) IN
                      IF ~r.ok THEN r ELSE Ok([type |-> packet_type, records |-> r.v])
            ELSE Panic

MaxV6In == 2
MaxV6Regs == 1
MaxV6Time == 2

Unspecified == <<0, 0, 0, 0, 0, 0, 0, 0>>
LinkLocalA == <<65152, 0, 0, 0, 0, 0, 0, 1>>
LinkLocalB == <<65152, 0, 0, 0, 0, 0, 0, 2>>
LinkLocals == {LinkLocalA, LinkLocalB}
PeerV6 == <<65152, 0, 0, 0, 0, 0, 0, 9>>

(* an IPv6 packet on the wire: version 6, no traffic class or flow label,
   hop limit 255 *)
Ipv6Bytes(next_header, src, dest, payload) ==
    <<96, 0, 0, 0>> \o be_u16(Len(payload)) \o <<next_header, 255>>
        \o Address_encode(src) \o Address_encode(dest) \o payload

(* an ICMPv6 message with its checksum field filled in for the pseudo-header *)
WithChecksum(msg, src, dest) ==
    LET zeroed == SubSeq(msg, 1, 2) \o <<0, 0>> \o Drop(msg, 4)
        c == packet_checksum(zeroed, [src |-> src, dest |-> dest, length |-> Len(msg)]).v
    IN SubSeq(msg, 1, 2) \o be_u16(c) \o Drop(msg, 4)

NsBytes(type, target) == <<type, 0, 0, 0, 0, 0, 0, 0>> \o Address_encode(target)

(* what the Ethernet layer hands over: a Neighbor Solicitation and a Neighbor
   Advertisement naming LinkLocalA, the solicitation behind a hop-by-hop
   header, a UDP packet, an ICMPv6 message with a wrong checksum, and a
   packet of version 4 *)
V6Payloads ==
    LET ns == WithChecksum(NsBytes(NeighborSolicitation, LinkLocalA), PeerV6, LinkLocalA)
        na == WithChecksum(NsBytes(NeighborAdvertisement, LinkLocalA), PeerV6, LinkLocalA)
    IN { Ipv6Bytes(Ipv6Icmp, PeerV6, LinkLocalA, ns),
         Ipv6Bytes(Ipv6Icmp, PeerV6, LinkLocalA, na),
         Ipv6Bytes(HopByHop, PeerV6, LinkLocalA, <<Ipv6Icmp, 0, 0, 0, 0, 0, 0, 0>> \o ns),
         Ipv6Bytes(Udp, PeerV6, LinkLocalA, <<0, 7, 0, 7>>),
         Ipv6Bytes(Ipv6Icmp, PeerV6, LinkLocalA, NsBytes(NeighborSolicitation, LinkLocalA)),
         <<69, 0, 0, 0>> }

V6Connected == [c \in V6ChanIds |-> TRUE]

V6Count(ev) == Cardinality({k \in 1..Len(v6Log) : v6Log[k].ev = ev})

(* the capacity of the server's channels is any capacity up to the bound *)
InitIp6 ==
    /\ (\E n \in 1..ChanCap : Bounded(n))
    /\ QueueIdle /\ MapIdle /\ TapIdle /\ ExtIdle

(* the Ethernet layer dispatches an IPv6 frame to the server's channel *)
V6Arrive ==
    \E b \in V6Payloads :
        /\ V6Count("frame") + Len(v6_frames)
              + (IF v6.pc \in {"parse", "dispatch"} THEN 1 ELSE 0) < MaxV6In
        /\ Len(v6_frames) < cap
        /\ v6_frames' = Append(v6_frames, [dest |-> HostMac, src |-> PeerMac,
                                           ethertype |-> Ipv6, payload |-> b])
        /\ UNCHANGED <<v6_map, v6_chans, v6, icmp6, v6Log, addrVars, coreVars, arpVars, trVars, pfVars, capVars>>

(* KeyedDispatcher::register on the server, as UdpServer::new calls it *)
V6Register ==
    \E key \in {Udp, Ipv6Icmp}, c \in {"udp", "x"} :
        /\ V6Count("register") < MaxV6Regs
        /\ v6.pc # "dispatch"
        /\ v6_map' = register(v6_map, key, c)
        /\ v6Log' = Append(v6Log, [ev |-> "register", key |-> key, to |-> c])
        /\ UNCHANGED <<v6_frames, v6_chans, v6, icmp6, addrVars, coreVars, arpVars, trVars, pfVars, capVars>>

(* the record of one dispatched packet: whom the map named for its key *)
V6Dispatched(packet) ==
    [ev |-> "frame", ok |-> TRUE, packet |-> packet, map |-> v6_map,
     to |-> IF dispatch_key(packet) \in DOMAIN v6_map
            THEN v6_map[dispatch_key(packet)] ELSE "none"]

(* start_ipv6, thread of Server::start: frame_receiver.recv().unwrap() hands
   the thread the next frame *)
V6Recv ==
    /\ started
    /\ v6.pc = "recv"
    /\ v6_frames # <<>>
    /\ v6_frames' = Tail(v6_frames)
    /\ v6' = [pc |-> "parse", frame |-> Some(Head(v6_frames)), packet |-> None]
    /\ UNCHANGED <<v6_map, v6_chans, icmp6, v6Log, addrVars, coreVars, arpVars, trVars, pfVars, capVars>>

(* a frame arm that acts on a solicitation or advertisement naming an own
   address: duplicate address detection, the address is given up *)
V6Parse_dad ==
    /\ v6.pc = "parse"
    /\ \E checks \in BOOLEAN :
          LET r == ipv6_packet(v6.frame[1].payload, checks) IN
          IF ~r.ok
          THEN /\ v6' = [v6 EXCEPT !.pc = "panicked", !.frame = None]
               /\ v6Log' = Append(v6Log, [ev |-> "frame", ok |-> FALSE])
               /\ UNCHANGED <<v6_chans, if_addrs, maint>>
          ELSE LET d == dispatch(v6_map, v6_chans, V6Connected, r.v)
                   m == icmpv6_packet(r.v.payload,
                                      [src |-> r.v.src, dest |-> r.v.dest,
                                       length |-> Len(r.v.payload)], checks)
                   named == IF r.v.next_header = Ipv6Icmp /\ m.ok /\ "address" \in DOMAIN m.v
                            THEN {m.v.address} \cap DOMAIN if_addrs ELSE {}
               IN /\ if_addrs' = [a \in DOMAIN if_addrs \ named |-> if_addrs[a]]
                  /\ maint' = [t \in {u \in DOMAIN maint : maint[u] \notin named} |-> maint[t]]
                  /\ IF d.res = "Block"
                     THEN /\ v6' = [pc |-> "dispatch", frame |-> None, packet |-> Some(r.v)]
                          /\ UNCHANGED <<v6_chans, v6Log>>
                     ELSE /\ v6_chans' = d.chans
                          /\ v6Log' = Append(v6Log, V6Dispatched(r.v))
                          /\ v6' = V6Receiving
    /\ UNCHANGED <<v6_frames, v6_map, icmp6, v6_now, v6_out, started,
                   coreVars, arpVars, trVars, pfVars, capVars>>

(* start_ipv6: packet(&frame.payload).unwrap(), in a build with or without
   overflow checks, and recv_map.dispatch(packet).unwrap(), which takes the
   map's guard and sends, waiting while the subscriber's channel is full *)
V6Parse ==
    /\ v6.pc = "parse"
    /\ \E checks \in BOOLEAN :
          LET r == ipv6_packet(v6.frame[1].payload, checks) IN
          IF ~r.ok
          THEN /\ v6' = [v6 EXCEPT !.pc = "panicked", !.frame = None]
               /\ v6Log' = Append(v6Log, [ev |-> "frame", ok |-> FALSE])
               /\ UNCHANGED v6_chans
          ELSE LET d == dispatch(v6_map, v6_chans, V6Connected, r.v) IN
               IF d.res = "Block"
               THEN /\ v6' = [pc |-> "dispatch", frame |-> None, packet |-> Some(r.v)]
                    /\ UNCHANGED <<v6_chans, v6Log>>
               ELSE /\ v6_chans' = d.chans
                    /\ v6Log' = Append(v6Log, V6Dispatched(r.v))
                    /\ v6' = V6Receiving
    /\ UNCHANGED <<v6_frames, v6_map, icmp6, addrVars, coreVars, arpVars, trVars, pfVars, capVars>>

(* the send inside dispatch returns once the channel has room *)
V6DispatchResume ==
    /\ v6.pc = "dispatch"
    /\ LET d == dispatch(v6_map, v6_chans, V6Connected, v6.packet[1]) IN
          /\ d.res = "Ok"
          /\ v6_chans' = d.chans
          /\ v6Log' = Append(v6Log, V6Dispatched(v6.packet[1]))
    /\ v6' = V6Receiving
    /\ UNCHANGED <<v6_frames, v6_map, icmp6, addrVars, coreVars, arpVars, trVars, pfVars, capVars>>

(* the map holds the only Sender of the ICMPv6 channel (Server::new moves it
   into register, which stores the clone and drops the original): once no key
   names the channel, every Sender is gone *)
Icmp6Disconnected == \A k \in DOMAIN v6_map : v6_map[k] # "icmpv6"

(* start_icmpv6, thread of Server::start: icmpv6_receiver.recv().unwrap(); icmpv6::packet(&payload,
   PseudoHeader { src, dest, length }).unwrap(); the parsed packet is dropped.
   recv blocks on an empty channel while a Sender lives, hands out what is
   queued even after the last Sender is gone, and returns Err on an empty,
   disconnected channel, where the unwrap panics *)
Icmp6Recv ==
    /\ started
    /\ icmp6.pc = "recv"
    /\ IF v6_chans["icmpv6"] # <<>>
       THEN /\ v6_chans' = [v6_chans EXCEPT !["icmpv6"] = Tail(@)]
            /\ \E checks \in BOOLEAN :
                  LET ip_packet == Head(v6_chans["icmpv6"])
                      r == icmpv6_packet(ip_packet.payload,
                                         [src |-> ip_packet.src, dest |-> ip_packet.dest,
                                          length |-> Len(ip_packet.payload)], checks)
                  IN /\ icmp6' = IF r.ok THEN icmp6 ELSE [pc |-> "panicked"]
                     /\ v6Log' = Append(v6Log, [ev |-> "icmpv6", ok |-> r.ok, packet |-> ip_packet,
                                                parsed |-> IF r.ok THEN Some(r.v) ELSE None])
       ELSE /\ Icmp6Disconnected
            /\ icmp6' = [pc |-> "panicked"]
            /\ v6Log' = Append(v6Log, [ev |-> "icmpv6_closed"])
            /\ UNCHANGED v6_chans
    /\ UNCHANGED <<v6_frames, v6_map, v6, addrVars, coreVars, arpVars, trVars, pfVars, capVars>>

(* a subscriber registered from outside (UdpServer::start) takes a packet *)
V6ExtReceive ==
    \E c \in {"udp", "x"} :
        /\ v6_chans[c] # <<>>
        /\ v6_chans' = [v6_chans EXCEPT ![c] = Tail(@)]
        /\ v6Log' = Append(v6Log, [ev |-> "ext", to |-> c, packet |-> Head(v6_chans[c])])
        /\ UNCHANGED <<v6_frames, v6_map, v6, icmp6, addrVars, coreVars, arpVars, trVars, pfVars, capVars>>

(* Address maintenance of the IPv6 actor: RFC 4861 timers, in seconds *)
MAX_RTR_SOLICITATION_DELAY == 1
RETRANS_TIMER == 1

AllNodes == <<65282, 0, 0, 0, 0, 0, 0, 1>>
AllMldRouters == <<65282, 0, 0, 0, 0, 0, 0, 22>>

(* Address::solicited_nodes_multicast: ff02::1:ff00:0/104 with the low 24 bits
   of the address *)
solicited_nodes_multicast(a) == <<65282, 0, 0, 0, 0, 1, 65280 + (a[7] % 256), a[8]>>

(* on start: a link-local address from random interface bits, in state New,
   queued for maintenance after a delay drawn from 0 .. MAX_RTR_SOLICITATION_DELAY;
   Server::start spawns the two threads, which run from here on *)
V6Start ==
    /\ ~started
    /\ started' = TRUE
    /\ \E link_local \in LinkLocals, d \in 0..MAX_RTR_SOLICITATION_DELAY :
          /\ if_addrs' = [a \in {link_local} |-> "New"]
          /\ maint' = push_after(maint, v6_now, d, link_local)
    /\ UNCHANGED <<v6_now, v6_out, inVars, coreVars, arpVars, trVars, pfVars, capVars>>

(* the actor's clock runs from its start, and always far enough to reach a
   deadline that is still queued *)
V6Tick ==
    /\ started
    /\ \/ v6_now < MaxV6Time
       \/ receiver(maint) # None /\ ~AtReady(receiver(maint), v6_now)
    /\ v6_now' = v6_now + 1
    /\ UNCHANGED <<if_addrs, maint, v6_out, started, inVars, coreVars, arpVars, trVars, pfVars, capVars>>

MldReport(addr) ==
    [ev |-> "send", type |-> MldV2Report, src |-> Unspecified, dest |-> AllMldRouters,
     records |-> {AllNodes, solicited_nodes_multicast(addr)}]

Solicitation(addr) ==
    [ev |-> "send", type |-> NeighborSolicitation, src |-> Unspecified,
     dest |-> solicited_nodes_multicast(addr), target |-> addr, options |-> <<>>]

StatusEvent(addr, state) == [ev |-> "status", address |-> addr, state |-> state]

(* a maintenance pop: the actor thread, at the top of its loop, selects
   between its inbound frames and the maintenance queue, whose arm fires once
   the earliest deadline has passed; a thread that holds a frame, waits in
   dispatch or has panicked pops nothing.  New sends the report and the
   solicitation, becomes Tentative and is queued again RETRANS_TIMER later;
   Tentative becomes Valid; Valid is left alone *)
MaintPop ==
    /\ started
    /\ v6.pc = "recv"
    /\ AtReady(receiver(maint), v6_now)
    /\ LET r == pop_at(maint, receiver(maint)[1])
           addr == r.ret[1]
           popped == [ev |-> "pop", at |-> v6_now, address |-> addr, state |-> if_addrs[addr]]
       IN CASE if_addrs[addr] = "New" ->
                 /\ v6_out' = v6_out \o <<popped, MldReport(addr), Solicitation(addr),
                                          StatusEvent(addr, "Tentative")>>
                 /\ if_addrs' = [if_addrs EXCEPT ![addr] = "Tentative"]
                 /\ maint' = push_after(r.map, v6_now, RETRANS_TIMER, addr)
            [] if_addrs[addr] = "Tentative" ->
                 /\ v6_out' = v6_out \o <<popped, StatusEvent(addr, "Valid")>>
                 /\ if_addrs' = [if_addrs EXCEPT ![addr] = "Valid"]
                 /\ maint' = r.map
            [] OTHER ->
                 /\ v6_out' = Append(v6_out, popped)
                 /\ maint' = r.map
                 /\ UNCHANGED if_addrs
    /\ UNCHANGED <<v6_now, started, inVars, coreVars, arpVars, trVars, pfVars, capVars>>

(* the server's two threads with subscribers registering from outside *)
NextIp6In ==
    \/ V6Arrive \/ V6Register \/ V6Start
    \/ V6Recv \/ V6Parse \/ V6DispatchResume \/ Icmp6Recv \/ V6ExtReceive

SpecIp6In == InitIp6 /\ [][NextIp6In]_vars

(* the server's two threads beside the address maintenance *)
NextIp6 ==
    \/ V6Arrive \/ V6Recv \/ V6Parse \/ V6DispatchResume \/ Icmp6Recv
    \/ V6Start \/ V6Tick \/ MaintPop

SpecIp6 == InitIp6 /\ [][NextIp6]_vars

(* the actor thread: its start, then its loop over the maintenance queue
   and the inbound frames *)
V6Actor == V6Start \/ MaintPop \/ V6Recv \/ V6Parse \/ V6DispatchResume

(* start_icmpv6 has a step to take: a packet in its channel, or a channel
   that is empty and has lost its last Sender *)
Icmp6Ready ==
    /\ started
    /\ icmp6.pc = "recv"
    /\ (v6_chans["icmpv6"] # <<>> \/ Icmp6Disconnected)

(* both threads keep running while they have a step to take, and the clock
   keeps advancing; the last conjunct is the weak fairness of Icmp6Recv with
   its enabling condition written out *)
SpecIp6Fair ==
    /\ SpecIp6
    /\ WF_vars(V6Actor) /\ WF_vars(V6Tick)
    /\ ([]<>(~Icmp6Ready) \/ []<><<Icmp6Recv>>_vars)

(* Reading the IPv6 history *)

V6Events(ev) == {k \in 1..Len(v6Log) : v6Log[k].ev = ev}

(* the channel the latest register call before event k named for the key *)
V6RegisteredAt(k, key) ==
    LET regs == {j \in 1..(k - 1) : v6Log[j].ev = "register" /\ v6Log[j].key = key} IN
        IF regs = {} THEN "none" ELSE v6Log[Max(regs)].to

(* C14: a packet whose next header is ICMPv6 goes to the server's internal
   handler and never to a subscriber registered from outside, whatever
   register calls were made; a packet with another next header goes only to
   the subscriber registered for that header, or is dropped if there is none. *)
C14_IcmpStaysInternal ==
    /\ \A k \in V6Events("frame") :
          v6Log[k].ok =>
             IF v6Log[k].packet.next_header = Ipv6Icmp
             THEN v6Log[k].to = "icmpv6"
             ELSE v6Log[k].to = V6RegisteredAt(k, v6Log[k].packet.next_header)
    /\ \A k \in V6Events("ext") : v6Log[k].packet.next_header # Ipv6Icmp

(* what holds of C14 for the other next headers *)
C14_OthersGoToRegistrant ==
    \A k \in V6Events("frame") :
        (v6Log[k].ok /\ v6Log[k].packet.next_header # Ipv6Icmp)
            => v6Log[k].to = V6RegisteredAt(k, v6Log[k].packet.next_header)

RECURSIVE OutOf(_, _, _)
OutOf(out, ev, addr) ==
    IF out = <<>> THEN <<>>
    ELSE (IF Head(out).ev = ev /\ (ev = "send" \/ Head(out).address = addr)
          THEN <<Head(out)>> ELSE <<>>) \o OutOf(Tail(out), ev, addr)

StatesOf(evs) == [k \in 1..Len(evs) |-> evs[k].state]

LifecycleSteps == {<<"New", "Tentative">>, <<"Tentative", "Valid">>}

(* C15: the state of an address only moves New -> Tentative -> Valid, one
   step per maintenance pop for that address; every transition is followed
   by a status event with the new state, in the order of the transitions;
   with no conflict the address eventually becomes Valid. *)
C15_Lifecycle ==
    /\ [][/\ DOMAIN if_addrs \subseteq DOMAIN if_addrs'
          /\ \A a \in DOMAIN if_addrs' \ DOMAIN if_addrs : if_addrs'[a] = "New"
          /\ \A a \in DOMAIN if_addrs :
                if_addrs'[a] # if_addrs[a] =>
                   /\ <<if_addrs[a], if_addrs'[a]>> \in LifecycleSteps
                   /\ Len(OutOf(v6_out', "pop", a)) = Len(OutOf(v6_out, "pop", a)) + 1]_vars
    /\ [](\A a \in DOMAIN if_addrs :
             StatesOf(OutOf(v6_out, "status", a)) =
                CASE if_addrs[a] = "New" -> <<>>
                  [] if_addrs[a] = "Tentative" -> <<"Tentative">>
                  [] OTHER -> <<"Tentative", "Valid">>)
    /\ (started ~> (\A a \in DOMAIN if_addrs : if_addrs[a] = "Valid"))

(* the part of C15 that holds: the steps of the state and the status events *)
C15_StepsAndEvents ==
    /\ [][/\ DOMAIN if_addrs \subseteq DOMAIN if_addrs'
          /\ \A a \in DOMAIN if_addrs' \ DOMAIN if_addrs : if_addrs'[a] = "New"
          /\ \A a \in DOMAIN if_addrs :
                if_addrs'[a] # if_addrs[a] =>
                   /\ <<if_addrs[a], if_addrs'[a]>> \in LifecycleSteps
                   /\ Len(OutOf(v6_out', "pop", a)) = Len(OutOf(v6_out, "pop", a)) + 1]_vars
    /\ [](\A a \in DOMAIN if_addrs :
             StatesOf(OutOf(v6_out, "status", a)) =
                CASE if_addrs[a] = "New" -> <<>>
                  [] if_addrs[a] = "Tentative" -> <<"Tentative">>
                  [] OTHER -> <<"Tentative", "Valid">>)

Position(out, P(_)) == {k \in 1..Len(out) : P(out[k])}

(* C16: during autoconfiguration exactly one MLDv2 Report and exactly one
   Neighbor Solicitation (target the link-local address) are sent, both on
   the pop that finds the address New and before it becomes Tentative; no
   other pop sends anything; the pop that makes it Valid comes no earlier
   than RETRANS_TIMER after the New pop; a Valid address has no entry in the
   maintenance queue. *)
C16_OneReportOneSolicitation ==
    \A a \in DOMAIN if_addrs :
        LET sends == OutOf(v6_out, "send", a)
            pops == OutOf(v6_out, "pop", a)
            newPop == Position(v6_out, LAMBDA e : e.ev = "pop" /\ e.state = "New")
            tentative == Position(v6_out, LAMBDA e : e.ev = "status" /\ e.state = "Tentative")
            sent == Position(v6_out, LAMBDA e : e.ev = "send")
        IN /\ if_addrs[a] = "New" => sends = <<>>
           /\ if_addrs[a] # "New" =>
                 /\ Len(sends) = 2
                 /\ \E k \in 1..2 : sends[k].type = MldV2Report
                 /\ \E k \in 1..2 : /\ sends[k].type = NeighborSolicitation
                                    /\ sends[k].target = a
                 /\ \A k \in sent : \A i \in newPop, j \in tentative : i < k /\ k < j
           /\ \A i, j \in 1..Len(pops) :
                 (pops[i].state = "New" /\ pops[j].state = "Tentative")
                    => pops[j].at >= pops[i].at + RETRANS_TIMER
           /\ if_addrs[a] = "Valid" => \A t \in DOMAIN maint : maint[t] # a

(* the address became Valid exactly RETRANS_TIMER after its first pop *)
C16_Witness ==
    \E a \in DOMAIN if_addrs :
        /\ if_addrs[a] = "Valid"
        /\ LET pops == OutOf(v6_out, "pop", a) IN
              Len(pops) = 2 /\ pops[2].at = pops[1].at + RETRANS_TIMER

(* C17: processing an inbound frame, a Neighbor Solicitation or Advertisement
   naming the own tentative address included, changes no address state and
   neither adds to nor removes from the maintenance queue. *)
C17_InboundLeavesAddresses ==
    [][inVars' # inVars => (if_addrs' = if_addrs /\ maint' = maint)]_vars

(* the actor thread has dispatched, and the internal handler has parsed, a
   solicitation or advertisement naming the own address while that address
   was Tentative *)
C17_Witness ==
    /\ v6Log # <<>>
    /\ \E k \in 1..Len(v6Log) : v6Log[k].ev = "frame" /\ v6Log[k].ok
    /\ LET e == v6Log[Len(v6Log)] IN
          /\ e.ev = "icmpv6" /\ e.ok
          /\ "address" \in DOMAIN e.parsed[1]
          /\ e.parsed[1].address \in DOMAIN if_addrs
          /\ if_addrs[e.parsed[1].address] = "Tentative"


(***************************************************************************)
(* TimeReactor (reactor.rs): timers kept in a heap ordered by deadline,    *)
(* event handlers, and a single-threaded run loop that dispatches both.    *)
(* A handler is a closure; the model gives the closures a small language:  *)
(* push a value, stop the reactor, cancel a handle, or register a further  *)
(* timer with after() or at().                                             *)
(***************************************************************************)
MaxTimers == 2
MaxTrTime == 1
MaxEvents == 1

TrInstants == 0..MaxTrTime

(* the closures handed to after(), at() and on_event() *)
Pusher == [k |-> "push"]
Handlers ==
    {Pusher, [k |-> "stop"], [k |-> "after", d |-> 1], [k |-> "at", t |-> 0]}
        \cup {[k |-> "cancel", h |-> 1]}

(* a counter that is not advanced *)
TimeReactorState_at_same_handle(state, instant, handler) ==
    [state EXCEPT
        !.scheduled = [h \in DOMAIN @ \cup {state.next_handle} |->
                          IF h = state.next_handle
                          THEN [handler |-> handler, cancelled |-> FALSE]
                          ELSE @[h]],
        !.upcoming = @ \cup {[at |-> instant, after_id |-> state.next_handle]}]

(* TimeReactorState::at and schedule: the next handle names the timer, which
   is entered in scheduled and pushed on the heap *)
TimeReactorState_at(state, instant, handler) ==
    [state EXCEPT
        !.next_handle = @ + 1,
        !.scheduled = [h \in DOMAIN @ \cup {state.next_handle} |->
                          IF h = state.next_handle
                          THEN [handler |-> handler, cancelled |-> FALSE]
                          ELSE @[h]],
        !.upcoming = @ \cup {[at |-> instant, after_id |-> state.next_handle]}]

(* TimeReactorHandle::after: at(Instant::now() + duration) *)
TimeReactorHandle_after(state, clock, duration, handler) ==
    TimeReactorState_at(state, clock + duration, handler)

TimeReactorState_cancel_noop(state, handle) == state

(* TimeReactorState::cancel: mark the entry if the timer is still scheduled *)
TimeReactorState_cancel(state, handle) ==
    IF handle \in DOMAIN state.scheduled
    THEN [state EXCEPT !.scheduled[handle].cancelled = TRUE]
    ELSE state

(* TimeReactorHandle::on_event *)
TimeReactorHandle_on_event(state, handler) ==
    [state EXCEPT !.event_handlers = Append(@, handler)]

(* TimeReactorHandle::stop *)
TimeReactorHandle_stop(state) == [state EXCEPT !.running = FALSE]

upcoming_peek_latest(upcoming) ==
    {i \in upcoming : \A j \in upcoming : j.at <= i.at}

(* BinaryHeap::peek under ScheduledInstance's reversed order on `at`: an
   instance with the earliest deadline; instances with equal deadlines are
   not ordered among themselves *)
upcoming_peek(upcoming) ==
    {i \in upcoming : \A j \in upcoming : i.at <= j.at}

(* the body of a handler closure, run with a TimeReactorHandle *)
CallHandler(state, handler, clock) ==
    CASE handler.k = "push"   -> state
      [] handler.k = "stop"   -> TimeReactorHandle_stop(state)
      [] handler.k = "cancel" -> TimeReactorState_cancel(state, handler.h)
      [] handler.k = "after"  -> TimeReactorHandle_after(state, clock, handler.d, Pusher)
      [] handler.k = "at"     -> TimeReactorState_at(state, handler.t, Pusher)

(* what a handler call adds to the history *)
CallLog(state, handler, clock, by) ==
    CASE handler.k = "push"   -> <<>>
      [] handler.k = "stop"   -> <<[ev |-> "stop", by |-> by]>>
      [] handler.k = "cancel" ->
            <<[ev |-> "cancel", handle |-> handler.h, by |-> by,
               scheduled |-> handler.h \in DOMAIN state.scheduled]>>
      [] handler.k = "after"  ->
            <<[ev |-> "at", handle |-> state.next_handle, at |-> clock + handler.d, by |-> by]>>
      [] handler.k = "at"     ->
            <<[ev |-> "at", handle |-> state.next_handle, at |-> handler.t, by |-> by]>>

(* TimeReactor::handle_event: every handler registered when the event is
   taken is called, in registration order *)
RECURSIVE handle_event(_, _, _)
handle_event(state, handlers, clock) ==
    IF handlers = <<>> THEN state
    ELSE handle_event(CallHandler(state, Head(handlers), clock), Tail(handlers), clock)

RECURSIVE handle_event_log(_, _, _, _, _)
handle_event_log(state, handlers, clock, event, n) ==
    IF handlers = <<>> THEN <<>>
    ELSE <<[ev |-> "handled", id |-> event, handler |-> n]>>
            \o CallLog(state, Head(handlers), clock, "event")
            \o handle_event_log(CallHandler(state, Head(handlers), clock), Tail(handlers),
                                clock, event, n + 1)

(* the closures registered so far only push: the scenarios explored have one
   closure that acts on the reactor among closures that push *)
OnlyPushers(state) ==
    /\ \A h \in DOMAIN state.scheduled : state.scheduled[h].handler = Pusher
    /\ \A i \in DOMAIN state.event_handlers : state.event_handlers[i] = Pusher

TrCount(ev) == Cardinality({i \in DOMAIN trLog : trLog[i].ev = ev})

InitReactor == Bounded(ChanCap) /\ QueueIdle /\ MapIdle /\ TapIdle /\ ExtIdle

(* before run(): handle.at(instant, handler) or handle.after(d, handler) *)
TrAt ==
    /\ tr.pc = "setup"
    /\ tr_state.next_handle < MaxTimers
    /\ \E instant \in TrInstants, handler \in Handlers :
        /\ handler = Pusher \/ OnlyPushers(tr_state)
        /\ tr_state' = TimeReactorState_at(tr_state, instant, handler)
        /\ trLog' = Append(trLog, [ev |-> "at", handle |-> tr_state.next_handle,
                                   at |-> instant, by |-> "setup"])
    /\ UNCHANGED <<tr, tr_now, tr_events, coreVars, arpVars, ip6Vars, pfVars, capVars>>

(* before run(): handle.cancel(h) with the handle just returned *)
TrCancel ==
    /\ tr.pc = "setup"
    /\ \E handle \in {tr_state.next_handle - 1} \cap DOMAIN tr_state.scheduled :
        /\ ~tr_state.scheduled[handle].cancelled
        /\ tr_state.scheduled[handle].handler = Pusher
        /\ tr_state' = TimeReactorState_cancel(tr_state, handle)
        /\ trLog' = Append(trLog, [ev |-> "cancel", handle |-> handle, by |-> "setup",
                                   scheduled |-> handle \in DOMAIN tr_state.scheduled])
    /\ UNCHANGED <<tr, tr_now, tr_events, coreVars, arpVars, ip6Vars, pfVars, capVars>>

(* before run(): handle.on_event(handler) *)
TrOnEvent ==
    /\ tr.pc = "setup"
    /\ tr_state.event_handlers = <<>>
    /\ tr_state.next_handle = 0
    /\ \E handler \in Handlers \ {Pusher} :
        tr_state' = TimeReactorHandle_on_event(tr_state, handler)
    /\ UNCHANGED <<tr, tr_now, tr_events, trLog, coreVars, arpVars, ip6Vars, pfVars, capVars>>

(* a sender of the event channel sends an event once the previous one has
   been taken; one sent while the reactor thread is elsewhere waits in the
   channel until the thread is back in select or recv *)
TrSend ==
    /\ tr.pc \in {"select", "recv"}
    /\ tr_events = <<>>
    /\ TrCount("event") + Len(tr_events) < MaxEvents
    /\ tr_events' = Append(tr_events, [id |-> TrCount("event") + Len(tr_events),
                                       sent |-> tr_now])
    /\ UNCHANGED <<tr_state, tr, tr_now, trLog, coreVars, arpVars, ip6Vars, pfVars, capVars>>

(* time passes while the thread waits in select, up to the last deadline
   registered; the registrations before run() are made at one instant, and
   a handler runs in no time *)
TrTick ==
    /\ \E i \in tr_state.upcoming : i.at > tr_now
    /\ tr.pc = "select"
    /\ tr_now' = tr_now + 1
    /\ UNCHANGED <<tr_state, tr, tr_events, trLog, coreVars, arpVars, ip6Vars, pfVars, capVars>>

(* TimeReactor::run, line 144: running = true *)
TrRun ==
    /\ tr.pc = "setup"
    /\ tr_state' = [tr_state EXCEPT !.running = TRUE]
    /\ tr' = TrLooping
    /\ trLog' = Append(trLog, [ev |-> "run"])
    /\ UNCHANGED <<tr_now, tr_events, coreVars, arpVars, ip6Vars, pfVars, capVars>>

TrLoop_ignores_stop ==
    /\ tr.pc = "loop"
    /\ IF tr_state.upcoming # {}
       THEN \E instance \in upcoming_peek(tr_state.upcoming) :
                tr' = [pc |-> "select", instance |-> instance,
                       cancelled |-> tr_state.scheduled[instance.after_id].cancelled,
                       now |-> tr_now]
       ELSE tr' = [TrSetup EXCEPT !.pc = "recv"]
    /\ UNCHANGED <<tr_state, tr_now, tr_events, trLog, coreVars, arpVars, ip6Vars, pfVars, capVars>>

(* run, lines 146-148: the loop condition, Instant::now() and
   get_next_schedule (peek, and the timer's cancelled flag) *)
TrLoop ==
    /\ tr.pc = "loop"
    /\ IF ~tr_state.running
       THEN tr' = [TrSetup EXCEPT !.pc = "done"]
       ELSE IF tr_state.upcoming # {}
       THEN \E instance \in upcoming_peek(tr_state.upcoming) :
                tr' = [pc |-> "select", instance |-> instance,
                       cancelled |-> tr_state.scheduled[instance.after_id].cancelled,
                       now |-> tr_now]
       ELSE tr' = [TrSetup EXCEPT !.pc = "recv"]
    /\ UNCHANGED <<tr_state, tr_now, tr_events, trLog, coreVars, arpVars, ip6Vars, pfVars, capVars>>

(* a drop_next that pops the heap and keeps the timer's entry *)
drop_next_keeps_entry(state, instance) ==
    [state EXCEPT !.upcoming = @ \ {instance}]

(* drop_next: pop the heap and forget the timer *)
drop_next(state, instance) ==
    [state EXCEPT
        !.upcoming = @ \ {instance},
        !.scheduled = [h \in DOMAIN @ \ {instance.after_id} |-> @[h]]]

(* run, lines 150-157: the after() arm of the select.  The channel delivers
   its deadline, the instant after() was called plus the time left to the
   timer's deadline; the assertion fails when that call read the same
   instant as line 147 and the deadline was still ahead *)
TrTimer ==
    /\ tr.pc = "select"
    /\ tr_now >= tr.instance.at
    /\ \E same_reading \in BOOLEAN :
        IF same_reading /\ tr.instance.at >= tr.now
        THEN /\ tr' = [TrSetup EXCEPT !.pc = "panicked"]
             /\ UNCHANGED <<tr_state, trLog>>
        ELSE LET dropped == drop_next(tr_state, tr.instance)
                 handler == tr_state.scheduled[tr.instance.after_id].handler
                 fire == [ev |-> "fire", handle |-> tr.instance.after_id,
                          at |-> tr.instance.at,
                          cancelled |-> tr.cancelled,
                          pending |-> {i.at : i \in tr_state.upcoming}]
             IN  /\ tr' = TrLooping
                 /\ IF tr.cancelled
                    THEN /\ tr_state' = dropped
                         /\ trLog' = Append(trLog, fire)
                    ELSE /\ tr_state' = CallHandler(dropped, handler, tr_now)
                         /\ trLog' = Append(trLog, fire)
                                \o CallLog(dropped, handler, tr_now, "timer")
    /\ UNCHANGED <<tr_now, tr_events, coreVars, arpVars, ip6Vars, pfVars, capVars>>

TrEvent_newest ==
    /\ tr.pc \in {"select", "recv"}
    /\ tr_events # <<>>
    /\ tr_events' = SubSeq(tr_events, 1, Len(tr_events) - 1)
    /\ tr_state' = handle_event(tr_state, tr_state.event_handlers, tr_now)
    /\ trLog' = Append(trLog, [ev |-> "event", id |-> tr_events[Len(tr_events)].id])
                    \o handle_event_log(tr_state, tr_state.event_handlers, tr_now,
                                        tr_events[Len(tr_events)].id, 1)
    /\ tr' = TrLooping
    /\ UNCHANGED <<tr_now, coreVars, arpVars, ip6Vars, pfVars, capVars>>

(* run, lines 158-163 and 165-168: an event is received and handled *)
TrEvent ==
    /\ tr.pc \in {"select", "recv"}
    /\ tr_events # <<>>
    /\ tr_events' = Tail(tr_events)
    /\ tr_state' = handle_event(tr_state, tr_state.event_handlers, tr_now)
    /\ trLog' = Append(trLog, [ev |-> "event", id |-> Head(tr_events).id])
                    \o handle_event_log(tr_state, tr_state.event_handlers, tr_now,
                                        Head(tr_events).id, 1)
    /\ tr' = TrLooping
    /\ UNCHANGED <<tr_now, coreVars, arpVars, ip6Vars, pfVars, capVars>>

NextReactor ==
    \/ TrAt \/ TrCancel \/ TrOnEvent \/ TrSend \/ TrTick
    \/ TrRun \/ TrLoop \/ TrTimer \/ TrEvent

SpecReactor == InitReactor /\ [][NextReactor]_vars

(* The event side of the reactor: several event handlers, several events
   waiting in the channel at once, sent before or during run(). *)
MaxEvHandlers == 2
MaxSent == 2

(* before run(): handle.on_event(handler), any number of times *)
TrOnEvents ==
    /\ tr.pc = "setup"
    /\ Len(tr_state.event_handlers) < MaxEvHandlers
    /\ \E handler \in Handlers :
        /\ handler = Pusher \/ OnlyPushers(tr_state)
        /\ tr_state' = TimeReactorHandle_on_event(tr_state, handler)
    /\ UNCHANGED <<tr, tr_now, tr_events, trLog, coreVars, arpVars, ip6Vars, pfVars, capVars>>

(* sender.send(event), before run() or while the reactor thread waits; the
   events carry the number of their send *)
TrSends ==
    /\ tr.pc \in {"setup", "select", "recv"}
    /\ TrCount("event") + Len(tr_events) < MaxSent
    /\ tr_events' = Append(tr_events, [id |-> TrCount("event") + Len(tr_events),
                                       sent |-> tr_now])
    /\ UNCHANGED <<tr_state, tr, tr_now, trLog, coreVars, arpVars, ip6Vars, pfVars, capVars>>

(* before run(): handle.after(duration, pusher), one timer beside the events *)
TrAfter ==
    /\ tr.pc = "setup"
    /\ tr_state.upcoming = {}
    /\ \E duration \in TrInstants :
        /\ tr_state' = TimeReactorHandle_after(tr_state, tr_now, duration, Pusher)
        /\ trLog' = Append(trLog, [ev |-> "at", handle |-> tr_state.next_handle,
                                   at |-> tr_now + duration, by |-> "setup"])
    /\ UNCHANGED <<tr, tr_now, tr_events, coreVars, arpVars, ip6Vars, pfVars, capVars>>

NextReactorEv ==
    \/ TrOnEvents \/ TrSends \/ TrAfter \/ TrTick
    \/ TrRun \/ TrLoop \/ TrTimer \/ TrEvent

SpecReactorEv == InitReactor /\ [][NextReactorEv]_vars

(* the reactor thread runs, time passes, and crossbeam's select does not
   pass over an operation that stays ready *)
SpecReactorEvFair ==
    /\ SpecReactorEv
    /\ WF_vars(TrRun) /\ WF_vars(TrLoop) /\ WF_vars(TrTick)
    /\ WF_vars(TrTimer) /\ WF_vars(TrEvent)


(* positions of the history *)
TrFires == {i \in DOMAIN trLog : trLog[i].ev = "fire"}
TrInvoked == {i \in TrFires : ~trLog[i].cancelled}
TrRegs == {i \in DOMAIN trLog : trLog[i].ev = "at"}
TrCancels == {i \in DOMAIN trLog : trLog[i].ev = "cancel"}
TrStops == {i \in DOMAIN trLog : trLog[i].ev = "stop"}
TrRegOf(handle) == CHOOSE i \in TrRegs : trLog[i].handle = handle

OncePerTimer ==
    \A i, j \in TrFires : trLog[i].handle = trLog[j].handle => i = j

(* C18 as stated: run() invokes the timer handlers in non-decreasing
   deadline order whatever the registration order, each non-cancelled
   timer at most once, a timer registered inside a handler included *)
C18_FiredInDeadlineOrder ==
    /\ \A i, j \in TrInvoked : i < j => trLog[i].at <= trLog[j].at
    /\ OncePerTimer

(* C18: run() fires the pending timer with the earliest deadline, each timer
   at most once; handlers are invoked in non-decreasing deadline order except
   for a timer that was registered, after the earlier one had fired, with a
   deadline already behind it; a timer registered inside a handler is kept
   until it fires, and run() returns only after stop() *)
C18_EarliestPendingFirst ==
    /\ \A i \in TrFires : \A d \in trLog[i].pending : trLog[i].at <= d
    /\ OncePerTimer
    /\ \A i, j \in TrInvoked :
          (i < j /\ trLog[j].at < trLog[i].at) =>
              /\ TrRegOf(trLog[j].handle) > i
              /\ trLog[TrRegOf(trLog[j].handle)].by # "setup"
    /\ \A r \in TrRegs :
          \/ \E i \in TrFires : trLog[i].handle = trLog[r].handle
          \/ [at |-> trLog[r].at, after_id |-> trLog[r].handle] \in tr_state.upcoming
    /\ tr.pc = "done" => TrStops # {}

(* two timers registered in the opposite order of their deadlines fired in
   deadline order, and a timer registered by the handler of one of them
   fired in the same run *)
C18_Witness ==
    /\ \E i, j \in TrInvoked :
          /\ i < j
          /\ trLog[i].handle > trLog[j].handle
          /\ trLog[i].at < trLog[j].at
          /\ trLog[TrRegOf(trLog[i].handle)].by = "setup"
          /\ trLog[TrRegOf(trLog[j].handle)].by = "setup"
    /\ \E k \in TrInvoked : trLog[TrRegOf(trLog[k].handle)].by = "timer"
    /\ tr.pc \in {"loop", "select", "recv"}

(* C19: a timer cancelled while it is still scheduled never has its handler
   invoked, whether the cancel comes before run(), from a timer handler or
   from an event handler; the other timers stay in the heap with their
   deadlines until they fire, earliest deadline first *)
C19_CancelledNeverInvoked ==
    /\ \A c \in TrCancels :
          trLog[c].scheduled =>
              \A i \in TrInvoked : trLog[i].handle # trLog[c].handle
    /\ \A r \in TrRegs :
          \/ \E i \in TrFires : trLog[i].handle = trLog[r].handle
          \/ /\ [at |-> trLog[r].at, after_id |-> trLog[r].handle] \in tr_state.upcoming
             /\ trLog[r].handle \in DOMAIN tr_state.scheduled
             /\ tr_state.scheduled[trLog[r].handle].cancelled
                   = (\E c \in TrCancels : c > r /\ trLog[c].handle = trLog[r].handle)
    /\ \A i \in TrInvoked : \A d \in trLog[i].pending : trLog[i].at <= d

(* an event handler cancelled a timer still scheduled, which was then taken
   off the heap without its handler being invoked, and the other timer, with
   a later deadline, fired after it *)
C19_Witness ==
    \E c \in TrCancels :
        /\ trLog[c].by = "event"
        /\ trLog[c].scheduled
        /\ \E i \in TrFires \ TrInvoked : i > c /\ trLog[i].handle = trLog[c].handle
        /\ \E i \in TrFires \ TrInvoked, j \in TrInvoked :
              trLog[i].handle = trLog[c].handle /\ j > i /\ trLog[j].at > trLog[i].at

(* C20: once a handler has called stop(), run() takes no timer and no event
   any more: it returns at the next loop condition *)
C20_StopEndsRun ==
    /\ \A st \in TrStops :
          \A j \in DOMAIN trLog : j > st => trLog[j].ev \notin {"fire", "event"}
    /\ TrStops # {} => tr.pc \in {"loop", "done"}
    /\ tr.pc = "done" => ~tr_state.running

(* run() has returned after a timer handler's stop(), leaving a timer with a
   later deadline in the heap and an event in the channel *)
C20_Witness ==
    /\ tr.pc = "done"
    /\ \E st \in TrStops : trLog[st].by = "timer"
    /\ \E i \in TrFires : \E inst \in tr_state.upcoming : inst.at > trLog[i].at
    /\ tr_events # <<>>


TrHandled == {i \in DOMAIN trLog : trLog[i].ev = "handled"}
TrTaken == {i \in DOMAIN trLog : trLog[i].ev = "event"}

(* C21: an event taken from the channel is passed exactly once to every
   registered event handler, first registered first, before anything else
   is dispatched; events are taken in the order they were sent *)
C21_EventsToEveryHandlerInOrder ==
    /\ \A i \in TrTaken :
          \A n \in 1..Len(tr_state.event_handlers) :
              /\ \E j \in TrHandled :
                    /\ j > i
                    /\ trLog[j].id = trLog[i].id /\ trLog[j].handler = n
                    /\ \A k \in (i + 1)..j : trLog[k].ev \notin {"event", "fire"}
              /\ \A j, k \in TrHandled :
                    (trLog[j].id = trLog[i].id /\ trLog[k].id = trLog[i].id
                        /\ trLog[j].handler = n /\ trLog[k].handler = n) => j = k
    /\ \A j, k \in TrHandled :
          (j < k /\ trLog[j].id = trLog[k].id) => trLog[j].handler < trLog[k].handler
    /\ \A j \in TrHandled : \E i \in TrTaken : i < j /\ trLog[i].id = trLog[j].id
    /\ \A i, k \in TrTaken : i < k => trLog[i].id < trLog[k].id
    /\ \A i \in TrTaken : \A e \in DOMAIN tr_events : trLog[i].id < tr_events[e].id

(* two events have each been passed to the two registered handlers by one
   run() *)
C21_Witness ==
    /\ Len(tr_state.event_handlers) = 2
    /\ Cardinality(TrTaken) = 2
    /\ Cardinality(TrHandled) = 4
    /\ \E i \in DOMAIN trLog : trLog[i].ev = "run" /\ \A t \in TrTaken : t > i


(* a step of run() that fires a timer *)
TrFireStep ==
    /\ Len(trLog') > Len(trLog)
    /\ trLog'[Len(trLog) + 1].ev = "fire"

(* a step of run() that takes an event *)
TrEventStep ==
    /\ Len(trLog') > Len(trLog)
    /\ trLog'[Len(trLog) + 1].ev = "event"

(* C22: no timer fires while an event that was sent before the timer's
   deadline waits in the channel, and a run() that has not been stopped
   always gets to the pending timers: their handlers are invoked *)
C22_EventBeforeTimer ==
    /\ [][TrFireStep =>
            \A e \in DOMAIN tr_events : tr_events[e].sent >= tr.instance.at]_vars
    /\ [](tr.pc = "loop" => <>(tr_state.upcoming = {} \/ tr.pc = "done"))


-----------------------------------------------------------------------------
(* ICMPv6 encoder (src/protocols/ipv6/icmpv6.rs): Packet::encode fills in   *)
(* the checksum that icmpv6::packet verifies.                               *)
MaxNonce == 3
MaxRecords == 2

(* x / 8 rounded up, as ((x as f64) / 8f64).ceil() as u8 *)
CeilDiv8(x) == IF (x + 7) \div 8 > 255 THEN 255 ELSE (x + 7) \div 8

(* EncodeTo for NeighborSolicitationOption: a nonce is its type, its length
   in units of eight bytes rounded up, and its bytes, without padding; the
   other options are todo!() *)
RECURSIVE NeighborSolicitationOptions_encode(_)
NeighborSolicitationOptions_encode(options) ==
    IF options = <<>> THEN Ok(<<>>)
    ELSE IF Head(options)[1] # Nonce THEN Panic
    ELSE LET r == NeighborSolicitationOptions_encode(Tail(options)) IN
         IF ~r.ok THEN r
         ELSE Ok(<<Nonce, CeilDiv8(Len(Head(options)[2]) + 2)>> \o Head(options)[2] \o r.v)

(* EncodeTo for MldV2AddressRecord *)
RECURSIVE MldV2AddressRecords_encode(_)
MldV2AddressRecords_encode(records) ==
    IF records = <<>> THEN <<>>
    ELSE <<Head(records).record_type, 0, 0, 0>> \o Address_encode(Head(records).address)
            \o MldV2AddressRecords_encode(Tail(records))

(* Packet::encode: the message with a zero checksum field, the checksum over
   it and the pseudo-header with the message's length, the checksum written
   into bytes 2..4, and the assertion that the checksum is now zero *)
Packet_encode(p, pseudo_header) ==
    LET buffer == IF p.type = NeighborSolicitation
                  THEN LET o == NeighborSolicitationOptions_encode(p.options) IN
                       IF ~o.ok THEN o
                       ELSE Ok(<<NeighborSolicitation, 0, 0, 0, 0, 0, 0, 0>>
                                   \o Address_encode(p.address) \o o.v)
                  ELSE IF p.type = MldV2Report
                  THEN Ok(<<MldV2Report, 0, 0, 0, 0, 0>> \o be_u16(Len(p.records) % 65536)
                              \o MldV2AddressRecords_encode(p.records))
                  ELSE Panic
    IN IF ~buffer.ok THEN buffer
       ELSE LET updated_pseudo_header ==
                    [pseudo_header EXCEPT !.length = Len(buffer.v)]
                checksum == packet_checksum(buffer.v, updated_pseudo_header)
            IN IF ~checksum.ok THEN Panic
               ELSE LET written == SubSeq(buffer.v, 1, 2) \o be_u16(checksum.v)
                                       \o Drop(buffer.v, 4)
                    IN IF packet_checksum(written, updated_pseudo_header) # Ok(0)
                       THEN Panic
                       ELSE Ok(written)

(* nonces of every length up to MaxNonce *)
Nonces == {[i \in 1..n |-> i] : n \in 0..MaxNonce}

RecordLists ==
    {<<>>} \cup
    {[i \in 1..n |-> [record_type |-> t, address |-> a]] :
        n \in 1..MaxRecords, t \in {2, 4}, a \in {AllNodes, LinkLocalA}}

(* the packets Packet::encode has a branch for *)
EncodablePackets ==
    {[type |-> NeighborSolicitation, address |-> a, options |-> o] :
        a \in {LinkLocalA, LinkLocalB},
        o \in {<<>>} \cup {<<<<Nonce, n>>>> : n \in Nonces}
                \cup {<<<<Nonce, n>>, <<Nonce, n>>>> : n \in Nonces}}
      \cup {[type |-> MldV2Report, records |-> r] : r \in RecordLists}

PseudoHeaders ==
    {[src |-> a, dest |-> b, length |-> 0] :
        a \in {Unspecified, LinkLocalA}, b \in {AllMldRouters, LinkLocalB}}

InitIcmpCodec ==
    /\ Bounded(ChanCap) /\ QueueIdle /\ MapIdle /\ TapIdle /\ ArpIdle /\ Ip6Idle /\ ReactorIdle
    /\ \E p \in EncodablePackets, ph \in PseudoHeaders :
        pf = [pc |-> "packet", packet |-> p, pseudo_header |-> ph]

(* b = p.encode(pseudo_header) *)
IcmpEncode ==
    /\ pf.pc = "packet"
    /\ pf' = [pc |-> "encoded", packet |-> pf.packet, pseudo_header |-> pf.pseudo_header,
              encoded |-> Packet_encode(pf.packet, pf.pseudo_header)]
    /\ UNCHANGED <<coreVars, arpVars, ip6Vars, trVars, capVars>>

(* a byte of the message changes on the way *)
IcmpDamage ==
    /\ pf.pc = "encoded"
    /\ pf.encoded.ok
    /\ \E i \in {1, 3, Len(pf.encoded.v)} :
        pf' = [pf EXCEPT !.pc = "damaged",
                         !.encoded = Ok([pf.encoded.v EXCEPT ![i] = (@ + 1) % 256])]
    /\ UNCHANGED <<coreVars, arpVars, ip6Vars, trVars, capVars>>

(* icmpv6::packet(b, pseudo-header with length = len(b)) *)
IcmpDecode ==
    /\ pf.pc \in {"encoded", "damaged"}
    /\ pf.encoded.ok
    /\ \E checks \in BOOLEAN :
        LET ph == [pf.pseudo_header EXCEPT !.length = Len(pf.encoded.v)] IN
        pf' = [pc |-> "decoded", packet |-> pf.packet, pseudo_header |-> pf.pseudo_header,
               encoded |-> pf.encoded, damaged |-> pf.pc = "damaged",
               checksum |-> packet_checksum(pf.encoded.v, ph),
               decoded |-> icmpv6_packet(pf.encoded.v, ph, checks)]
    /\ UNCHANGED <<coreVars, arpVars, ip6Vars, trVars, capVars>>

NextIcmpCodec == IcmpEncode \/ IcmpDamage \/ IcmpDecode

SpecIcmpCodec == InitIcmpCodec /\ [][NextIcmpCodec]_vars

(* C23: every packet that encode has a branch for is encoded to bytes whose
   checksum over the pseudo-header with their length is zero, so that decode
   passes the checksum test; an input whose checksum is not zero is answered
   with the error "icmpv6 checksum invalid" and never with a packet *)
C23_EncodedChecksumIsZero ==
    /\ pf.pc = "encoded" =>
          /\ pf.encoded.ok
          /\ packet_checksum(pf.encoded.v,
                             [pf.pseudo_header EXCEPT !.length = Len(pf.encoded.v)]) = Ok(0)
    /\ pf.pc = "decoded" =>
          /\ ~pf.damaged => pf.decoded # ChecksumInvalid
          /\ pf.checksum # Ok(0) => pf.decoded = ChecksumInvalid


-----------------------------------------------------------------------------
(* IPv6 packets (src/protocols/ipv6/packet.rs): the extension-header chain, *)
(* Packet::encode and packet().  A next header is its number, 0 being       *)
(* hop-by-hop options.                                                      *)
Pad1 == 0
PadN == 1
RouterAlert == 5
U16 == 65536

(* hop_by_hop_option: Pad1 is one byte; PadN is a length and that many bytes,
   skipped by slicing; any other option is a type, a length and that many
   bytes, of which a router alert reads two; an option of unknown type that
   is complete is todo!() *)
hop_by_hop_option(input) ==
    IF input = <<>> THEN Err
    ELSE LET option_type == input[1] IN
         IF option_type = PadN
         THEN IF Len(input) < 2 THEN Err
              ELSE IF input[2] > Len(input) - 2 THEN Panic
              ELSE Ok([option |-> None, rest |-> Drop(input, 2 + input[2])])
         ELSE IF option_type = Pad1
         THEN Ok([option |-> None, rest |-> Drop(input, 1)])
         ELSE IF Len(input) < 2 THEN Err
         ELSE IF Len(input) - 2 < input[2] THEN Err
         ELSE IF option_type = RouterAlert
         THEN IF input[2] < 2 THEN Err
              ELSE Ok([option |-> Some([type |-> RouterAlert,
                                        alert |-> input[3] * 256 + input[4]]),
                       rest |-> Drop(input, 2 + input[2])])
         ELSE Panic

(* terminated(many0(hop_by_hop_option), eof): options until one fails, and
   then nothing may be left *)
RECURSIVE hop_by_hop_options(_)
hop_by_hop_options(header_bytes) ==
    LET o == hop_by_hop_option(header_bytes) IN
    IF header_bytes = <<>> THEN Ok(<<>>)
    ELSE IF ~o.ok THEN o
    ELSE LET r == hop_by_hop_options(o.v.rest) IN
         IF ~r.ok THEN r ELSE Ok(o.v.option \o r.v)

(* extension_header(input, HopByHopOptions): the next header, the length in
   units of eight bytes beyond the first eight, the options *)
packet_extension_header(input) ==
    IF Len(input) < 2 THEN Err
    ELSE LET header_len == (1 + input[2]) * 8 IN
         IF Len(input) - 2 < header_len - 2 THEN Err
         ELSE LET options == hop_by_hop_options(SubSeq(input, 3, header_len)) IN
              IF ~options.ok THEN options
              ELSE Ok([next_header |-> input[1], num_header_bytes |-> header_len,
                       header |-> options.v, rest |-> Drop(input, header_len)])

(* a loop that takes one extension header and stops *)
packet_extension_headers_once(input, next_header, payload_length, checks) ==
    IF next_header # HopByHop
    THEN Ok([next_header |-> next_header, payload_length |-> payload_length,
             extension_headers |-> <<>>, header_bytes |-> 0, rest |-> input])
    ELSE LET e == packet_extension_header(input) IN
         IF ~e.ok THEN e
         ELSE IF payload_length < e.v.num_header_bytes /\ checks THEN Panic
         ELSE Ok([next_header |-> e.v.next_header,
                  payload_length |-> (payload_length - e.v.num_header_bytes + U16) % U16,
                  extension_headers |-> <<e.v.header>>,
                  header_bytes |-> e.v.num_header_bytes,
                  rest |-> e.v.rest])

(* the while-let loop of packet(): extension headers as long as the next
   header announces one, each taken off payload_length in u16 *)
RECURSIVE packet_extension_headers(_, _, _, _)
packet_extension_headers(input, next_header, payload_length, checks) ==
    IF next_header # HopByHop
    THEN Ok([next_header |-> next_header, payload_length |-> payload_length,
             extension_headers |-> <<>>, header_bytes |-> 0, rest |-> input])
    ELSE LET e == packet_extension_header(input) IN
         IF ~e.ok THEN e
         ELSE IF payload_length < e.v.num_header_bytes /\ checks THEN Panic
         ELSE LET r == packet_extension_headers(
                           e.v.rest, e.v.next_header,
                           (payload_length - e.v.num_header_bytes + U16) % U16, checks)
              IN IF ~r.ok THEN r
                 ELSE Ok([r.v EXCEPT !.extension_headers = <<e.v.header>> \o @,
                                     !.header_bytes = e.v.num_header_bytes + @])

(* packet(input) of packet.rs *)
packet(input, checks) ==
    IF Len(input) < 4 \/ input[1] \div 16 # 6 THEN Err
    ELSE IF Len(input) < 40 THEN Err
    ELSE LET payload_length == input[5] * 256 + input[6]
             e == packet_extension_headers(Drop(input, 40), input[7], payload_length, checks)
         IN IF ~e.ok THEN e
            ELSE IF Len(e.v.rest) < e.v.payload_length THEN Err
            ELSE Ok([traffic_class |-> (input[1] % 16) * 16 + input[2] \div 16,
                     flow_label |-> (input[2] % 16) * 65536 + input[3] * 256 + input[4],
                     next_header |-> e.v.next_header,
                     hop_limit |-> input[8],
                     src |-> ipv6_address(SubSeq(input, 9, 24)).v,
                     dest |-> ipv6_address(SubSeq(input, 25, 40)).v,
                     extension_headers |-> e.v.extension_headers,
                     payload |-> SubSeq(e.v.rest, 1, e.v.payload_length),
                     declared |-> payload_length,
                     header_bytes |-> e.v.header_bytes])

(* encdec::round_up_to_next: the least multiple of n that is at least x *)
round_up_to_next(x, n) == ((x + n - 1) \div n) * n

(* EncodeTo for Vec<HopByHopOption> *)
RECURSIVE HopByHopOptions_encode(_)
HopByHopOptions_encode(options) ==
    IF options = <<>> THEN <<>>
    ELSE <<RouterAlert, 2>> \o be_u16(Head(options).alert)
            \o HopByHopOptions_encode(Tail(options))

(* EncodeTo for ExtensionHeader: the length byte and the options, padded
   with PadN (or one zero byte) to eight-byte alignment *)
ExtensionHeader_encode(options) ==
    LET encoded == HopByHopOptions_encode(options)
        start_len == Len(encoded)
        target_len == round_up_to_next(start_len + 2, 8) - 2
        padded == IF target_len - start_len > 1
                  THEN encoded \o <<PadN, (target_len - start_len - 2) % 256>>
                          \o Zeros(target_len - start_len - 2)
                  ELSE encoded \o Zeros(target_len - start_len)
    IN <<((target_len - 6) % 256) \div 8>> \o padded

(* NextHeader::Unset, the Default of NextHeader: the one value of a next
   header that is no byte *)
Unset == -1

(* Packet::encode_extension_headers: each header behind the number of the
   header that follows it; EncodeTo for NextHeader panics on Unset, which
   can only be the final next header, written with the last header *)
RECURSIVE Packet_encode_extension_headers(_, _)
Packet_encode_extension_headers(extension_headers, final_next_header) ==
    IF extension_headers = <<>> THEN Ok(<<>>)
    ELSE IF Len(extension_headers) = 1 /\ final_next_header = Unset THEN Panic
    ELSE LET rest == Packet_encode_extension_headers(Tail(extension_headers),
                                                     final_next_header)
         IN IF ~rest.ok THEN Panic
            ELSE Ok(<<IF Len(extension_headers) = 1 THEN final_next_header ELSE HopByHop>>
                      \o ExtensionHeader_encode(Head(extension_headers))
                      \o rest.v)

(* a | b on unsigned integers *)
RECURSIVE BitOr(_, _)
BitOr(a, b) ==
    IF a = 0 THEN b
    ELSE IF b = 0 THEN a
    ELSE (IF a % 2 = 1 \/ b % 2 = 1 THEN 1 ELSE 0) + 2 * BitOr(a \div 2, b \div 2)

(* Packet::encode of packet.rs: the prelude is (6u32 << 28) |
   ((traffic_class as u32) << 20) | flow_label, with flow_label any u32; the
   extension headers are encoded first; the payload length is their length
   plus the payload, as u16; with no extension header the packet's own next
   header is written, and an Unset one panics *)
Ipv6Packet_encode(p) ==
    LET prelude == BitOr(BitOr(6 * 268435456, p.traffic_class * 1048576), p.flow_label)
        first_next_header == IF p.extension_headers = <<>> THEN p.next_header ELSE HopByHop
        encoded_extension_headers ==
            Packet_encode_extension_headers(p.extension_headers, p.next_header)
    IN IF ~encoded_extension_headers.ok THEN Panic
       ELSE IF first_next_header = Unset THEN Panic
       ELSE Ok(be_u32(prelude)
                \o be_u16((Len(encoded_extension_headers.v) + Len(p.payload)) % U16)
                \o <<first_next_header, p.hop_limit>>
                \o Address_encode(p.src) \o Address_encode(p.dest)
                \o encoded_extension_headers.v \o p.payload)


-----------------------------------------------------------------------------
(* The four packet parsers on arbitrary input: whole messages, every prefix *)
(* of them, and messages with a length or a type that lies.                 *)
Prefixes(input) == {SubSeq(input, 1, n) : n \in 0..Len(input)}

MldRecord == <<4, 0, 0, 0>> \o Address_encode(AllNodes)

(* a hop-by-hop header with a router alert, padded, announcing ICMPv6 *)
RouterAlertHeader == <<Ipv6Icmp, 0, RouterAlert, 2, 0, 0, PadN, 0>>

ParserInputs ==
    LET ns == WithChecksum(NsBytes(NeighborSolicitation, LinkLocalA), Unspecified, LinkLocalA)
        mld == WithChecksum(<<MldV2Report, 0, 0, 0, 0, 0, 0, 1>> \o MldRecord,
                            Unspecified, LinkLocalA)
        request == ArpPacket_encode([opcode |-> Request, src_ether |-> PeerMac,
                                 src_ipv4 |-> PeerIp, dest_ether |-> ZeroMac,
                                 dest_ipv4 |-> AddrA])
    IN Prefixes(ns) \cup Prefixes(mld) \cup Prefixes(request)
        \cup Prefixes(HostMac \o PeerMac \o be_u16(Arp) \o request)
        \cup Prefixes(Ipv6Bytes(HopByHop, Unspecified, LinkLocalA, RouterAlertHeader \o ns))
        \cup { (* ICMPv6 messages with a good checksum: too short, of a type
                  without a parser, with a nonce of length 0, with an option
                  of unknown type *)
               WithChecksum(<<NeighborSolicitation, 0, 0, 0>>, Unspecified, LinkLocalA),
               WithChecksum(<<MldV2Report, 0, 0, 0>>, Unspecified, LinkLocalA),
               WithChecksum(<<128, 0, 0, 0>>, Unspecified, LinkLocalA),
               WithChecksum(<<RouterSolicitation, 0, 0, 0>>, Unspecified, LinkLocalA),
               WithChecksum(NsBytes(NeighborSolicitation, LinkLocalA) \o <<Nonce, 0>>,
                            Unspecified, LinkLocalA),
               WithChecksum(NsBytes(NeighborSolicitation, LinkLocalA) \o <<3, 1, 0, 0, 0, 0, 0, 0>>,
                            Unspecified, LinkLocalA),
               WithChecksum(<<MldV2Report, 0, 0, 0, 0, 0, 0, 1, 4, 0>>, Unspecified, LinkLocalA),
               (* IPv6 packets: PadN longer than its header, an option of
                  unknown type, a payload length shorter than the header *)
               Ipv6Bytes(HopByHop, Unspecified, LinkLocalA, <<Ipv6Icmp, 0, PadN, 9, 0, 0, 0, 0>>),
               Ipv6Bytes(HopByHop, Unspecified, LinkLocalA, <<Ipv6Icmp, 0, 7, 4, 0, 0, 0, 0>>),
               <<96, 0, 0, 0, 0, 4, HopByHop, 255>> \o Address_encode(Unspecified)
                    \o Address_encode(LinkLocalA) \o RouterAlertHeader }

InitParsers ==
    /\ Bounded(ChanCap) /\ QueueIdle /\ MapIdle /\ TapIdle /\ ArpIdle /\ Ip6Idle /\ ReactorIdle
    /\ \E input \in ParserInputs : pf = [pc |-> "input", input |-> input]

ParserReturns(parser, result) ==
    pf' = [pc |-> "parsed", input |-> pf.input, parser |-> parser, result |-> result]

(* ether::frame(input) *)
ParseFrame ==
    /\ pf.pc = "input"
    /\ ParserReturns("frame", frame(pf.input))
    /\ UNCHANGED <<coreVars, arpVars, ip6Vars, trVars, capVars>>

(* arp::arp_packet(input) *)
ParseArp ==
    /\ pf.pc = "input"
    /\ ParserReturns("arp_packet", arp_packet(pf.input))
    /\ UNCHANGED <<coreVars, arpVars, ip6Vars, trVars, capVars>>

(* ipv6::packet::packet(input), in a build with or without overflow checks *)
ParseIpv6 ==
    /\ pf.pc = "input"
    /\ \E checks \in BOOLEAN : ParserReturns("packet", packet(pf.input, checks))
    /\ UNCHANGED <<coreVars, arpVars, ip6Vars, trVars, capVars>>

(* icmpv6::packet(input, pseudo_header) *)
ParseIcmpv6 ==
    /\ pf.pc = "input"
    /\ \E checks \in BOOLEAN :
        ParserReturns("icmpv6", icmpv6_packet(pf.input, [src |-> Unspecified, dest |-> LinkLocalA,
                                                  length |-> Len(pf.input)], checks))
    /\ UNCHANGED <<coreVars, arpVars, ip6Vars, trVars, capVars>>

NextParsers == ParseFrame \/ ParseArp \/ ParseIpv6 \/ ParseIcmpv6

SpecParsers == InitParsers /\ [][NextParsers]_vars

(* C24: whatever the input, a parser returns a parsed value or an error
   value; it never aborts *)
C24_ParsersNeverAbort ==
    pf.pc = "parsed" => "panic" \notin DOMAIN pf.result


-----------------------------------------------------------------------------
(* Packet::encode and packet() of packet.rs on packet values and on inputs. *)
MaxPayload == 2
MaxExtHeaders == 2

(* payloads of up to MaxPayload bytes, and one that no u16 can count *)
Payloads ==
    UNION {[1..n -> {0, 255}] : n \in 0..MaxPayload} \cup {[i \in 1..U16 |-> 0]}

(* hop-by-hop headers: no option, one router alert, two *)
RouterAlerts == {<<>>, <<[type |-> RouterAlert, alert |-> 0]>>,
                 <<[type |-> RouterAlert, alert |-> 0], [type |-> RouterAlert, alert |-> 1]>>}

(* traffic class and flow label: both zero, a flow label of twenty bits,
   flow labels that reach into the traffic class and the version *)
Preludes == {<<0, 0>>, <<1, 1048575>>, <<1, 1048576>>, <<255, 16777216>>, <<0, 2147483647>>}

Ipv6Packets ==
    {[traffic_class |-> c[1], flow_label |-> c[2], next_header |-> n, hop_limit |-> 255,
      src |-> Unspecified, dest |-> LinkLocalA, extension_headers |-> e, payload |-> p] :
        c \in Preludes,
        n \in {Udp, Ipv6Icmp, Unset},
        e \in UNION {[1..k -> RouterAlerts] : k \in 0..MaxExtHeaders},
        p \in Payloads}

(* inputs that are not the encoding of a packet value: a payload length
   smaller than the extension header that follows, with enough bytes behind
   it for the length that a wrapped u16 subtraction leaves *)
Ipv6Inputs ==
    {<<96, 0, 0, 0>> \o be_u16(declared) \o <<HopByHop, 255>>
        \o Address_encode(Unspecified) \o Address_encode(LinkLocalA)
        \o RouterAlertHeader \o [i \in 1..(U16 - 8 + declared) |-> 0] :
            declared \in 0..MaxPayload}

InitIp6Codec ==
    /\ Bounded(ChanCap) /\ QueueIdle /\ MapIdle /\ TapIdle /\ ArpIdle /\ Ip6Idle /\ ReactorIdle
    /\ \/ \E p \in Ipv6Packets : pf = [pc |-> "value", packet |-> p]
       \/ \E input \in Ipv6Inputs : pf = [pc |-> "input", input |-> input]

(* packet.encode() *)
Ip6Encode ==
    /\ pf.pc = "value"
    /\ LET r == Ipv6Packet_encode(pf.packet) IN
          pf' = IF r.ok THEN [pc |-> "encoded", packet |-> pf.packet, input |-> r.v]
                ELSE [pc |-> "panicked", packet |-> pf.packet]
    /\ UNCHANGED <<coreVars, arpVars, ip6Vars, trVars, capVars>>

(* packet(input), in a build with or without overflow checks *)
Ip6Parse ==
    /\ pf.pc \in {"encoded", "input"}
    /\ \E checks \in BOOLEAN :
        pf' = [pc |-> "parsed", input |-> pf.input, result |-> packet(pf.input, checks)]
    /\ UNCHANGED <<coreVars, arpVars, ip6Vars, trVars, capVars>>

NextIp6Codec == Ip6Encode \/ Ip6Parse

SpecIp6Codec == InitIp6Codec /\ [][NextIp6Codec]_vars

(* C25: the payload-length field that encode writes is the number of encoded
   extension-header bytes plus the number of payload bytes; and whenever the
   parser accepts an input, the bytes it consumed as extension headers plus
   the bytes it returns as payload are the declared payload length *)
C25_PayloadLengthIsHeadersPlusPayload ==
    /\ pf.pc = "encoded" =>
          pf.input[5] * 256 + pf.input[6]
            = Len(Packet_encode_extension_headers(pf.packet.extension_headers,
                                                  pf.packet.next_header).v)
                + Len(pf.packet.payload)
    /\ (pf.pc = "parsed" /\ pf.result.ok) =>
          pf.result.v.header_bytes + Len(pf.result.v.payload) = pf.result.v.declared


-----------------------------------------------------------------------------
(* IPv6 addresses as text (src/protocols/ipv6/address.rs): Display and      *)
(* FromStr.  A text is a sequence of one-character strings, an address the  *)
(* sequence of its eight groups.                                            *)
MaxGroups == 2

HexDigits == <<"0", "1", "2", "3", "4", "5", "6", "7", "8", "9", "a", "b", "c", "d", "e", "f">>

(* {:x}: lower-case hexadecimal without leading zeroes *)
RECURSIVE LowerHex(_)
LowerHex(v) ==
    IF v < 16 THEN <<HexDigits[v + 1]>>
    ELSE LowerHex(v \div 16) \o <<HexDigits[(v % 16) + 1]>>

UpperHexDigits == <<"0", "1", "2", "3", "4", "5", "6", "7", "8", "9", "A", "B", "C", "D", "E", "F">>

(* char::to_digit(16): the value of a digit, in either case *)
HexValues(c) == {d \in 0..15 : HexDigits[d + 1] = c \/ UpperHexDigits[d + 1] = c}

(* c.is_digit(16): 0-9, a-f and A-F *)
is_hex_digit(c) == HexValues(c) # {}

(* u16::from_str_radix(s, 16) on one to four hex digits of either case *)
RECURSIVE from_str_radix(_)
from_str_radix(s) ==
    IF s = <<>> THEN 0
    ELSE from_str_radix(SubSeq(s, 1, Len(s) - 1)) * 16
            + (CHOOSE d \in HexValues(s[Len(s)]) : TRUE)

(* the first loop of Display::fmt: the longest run of zero groups, the
   earliest one among equals; (8, 0) when no group is zero *)
RECURSIVE longest_zeroes(_, _, _)
longest_zeroes(a, i, longest) ==
    IF i >= 8 THEN longest
    ELSE LET len == Max({n \in 0..(8 - i) : \A j \in i..(i + n - 1) : a[j + 1] = 0})
             next == IF len > longest.len THEN [start |-> i, len |-> len] ELSE longest
         IN longest_zeroes(a, IF len = 0 THEN i + 1 ELSE i + len, next)

(* the second loop of Display::fmt: ":" where the longest run starts, one
   more for a group of the run that is the first or the last of the
   address; every other group in hexadecimal, followed by ":" unless it is
   the last *)
ZeroRun(longest) == longest.start..(longest.start + longest.len - 1)

RECURSIVE Address_write(_, _, _)
Address_write(a, i, longest) ==
    IF i >= 8 THEN <<>>
    ELSE IF i = longest.start
    THEN <<":">>
            \o (IF 0 \in ZeroRun(longest) THEN <<":">> ELSE <<>>)
            \o (IF 7 \in ZeroRun(longest) THEN <<":">> ELSE <<>>)
            \o Address_write(a, longest.start + longest.len, longest)
    ELSE LowerHex(a[i + 1]) \o (IF i # 7 THEN <<":">> ELSE <<>>)
            \o Address_write(a, i + 1, longest)

(* Display for Address *)
Address_fmt(a) == Address_write(a, 0, longest_zeroes(a, 0, [start |-> 8, len |-> 0]))

(* address_part: one to four hex digits, as a u16 *)
address_part(input) ==
    LET n == Max({k \in 0..Min({4, Len(input)}) : \A j \in 1..k : is_hex_digit(input[j])}) IN
    IF n = 0 THEN Err
    ELSE Ok([part |-> from_str_radix(SubSeq(input, 1, n)), rest |-> Drop(input, n)])

(* the loop of separated_list1(tag(":"), address_part) behind its first
   part: a ":" and a part, as long as both are there; a ":" without a part
   behind it is left in the input *)
RECURSIVE address_parts_more(_, _)
address_parts_more(parts, input) ==
    IF input = <<>> \/ input[1] # ":" THEN [parts |-> parts, rest |-> input]
    ELSE LET p == address_part(Tail(input)) IN
         IF ~p.ok THEN [parts |-> parts, rest |-> input]
         ELSE address_parts_more(Append(parts, p.v.part), p.v.rest)

(* opt(separated_list1(tag(":"), address_part)) with unwrap_or(vec![]) *)
address_parts(input) ==
    LET p == address_part(input) IN
    IF ~p.ok THEN [parts |-> <<>>, rest |-> input]
    ELSE address_parts_more(<<p.v.part>>, p.v.rest)

(* Address::from_str *)
Address_from_str(s) ==
    LET head == address_parts(s)
        placeholder == Len(head.rest) >= 2 /\ head.rest[1] = ":" /\ head.rest[2] = ":"
        tail == address_parts(IF placeholder THEN Drop(head.rest, 2) ELSE head.rest)
    IN IF tail.rest # <<>> THEN Err
       ELSE IF Len(head.parts) + Len(tail.parts) > 8 THEN Err
       ELSE IF placeholder
       THEN Ok(head.parts \o Zeros(8 - Len(tail.parts) - Len(head.parts)) \o tail.parts)
       ELSE IF Len(head.parts) + Len(tail.parts) < 8 THEN Err
       ELSE Ok(head.parts \o tail.parts)

(* the groups addresses are made of: zero, and values of one to four digits *)
GroupValues == <<1, 65535, 256, 10>>
Groups == {0} \cup {GroupValues[k] : k \in 1..MaxGroups}

Addresses == [1..8 -> Groups]

InitAddrText ==
    /\ Bounded(ChanCap) /\ QueueIdle /\ MapIdle /\ TapIdle /\ ArpIdle /\ Ip6Idle /\ ReactorIdle
    /\ \E a \in Addresses : pf = [pc |-> "address", address |-> a]

(* format!("{}", address) *)
AddrDisplay ==
    /\ pf.pc = "address"
    /\ pf' = [pc |-> "text", address |-> pf.address, text |-> Address_fmt(pf.address)]
    /\ UNCHANGED <<coreVars, arpVars, ip6Vars, trVars, capVars>>

(* text.parse::<Address>() *)
AddrParse ==
    /\ pf.pc = "text"
    /\ pf' = [pc |-> "parsed", address |-> pf.address, text |-> pf.text,
              result |-> Address_from_str(pf.text)]
    /\ UNCHANGED <<coreVars, arpVars, ip6Vars, trVars, capVars>>

NextAddrText == AddrDisplay \/ AddrParse

SpecAddrText == InitAddrText /\ [][NextAddrText]_vars

(* groups in hexadecimal with ":" between them *)
RECURSIVE JoinGroups(_)
JoinGroups(groups) ==
    IF groups = <<>> THEN <<>>
    ELSE IF Len(groups) = 1 THEN LowerHex(groups[1])
    ELSE LowerHex(groups[1]) \o <<":">> \o JoinGroups(Tail(groups))

(* the runs of zero groups of an address, as (first, last) positions *)
ZeroRuns(a) ==
    {r \in (1..8) \X (1..8) :
        /\ r[1] <= r[2]
        /\ \A j \in r[1]..r[2] : a[j] = 0
        /\ r[1] = 1 \/ a[r[1] - 1] # 0
        /\ r[2] = 8 \/ a[r[2] + 1] # 0}

(* the text with the earliest of the longest zero runs written as "::" *)
ElidedText(a) ==
    IF ZeroRuns(a) = {} THEN JoinGroups(a)
    ELSE LET longest == Max({r[2] - r[1] : r \in ZeroRuns(a)})
             first == Min({r[1] : r \in {q \in ZeroRuns(a) : q[2] - q[1] = longest}})
         IN JoinGroups(SubSeq(a, 1, first - 1)) \o <<":", ":">>
                \o JoinGroups(SubSeq(a, first + longest + 1, 8))

(* C26: the Display text of an address is its groups with the longest run
   of zero groups, the earliest of several, written as "::", and parsing
   that text gives the address again *)
C26_DisplayTextParsesBack ==
    /\ pf.pc \in {"text", "parsed"} => pf.text = ElidedText(pf.address)
    /\ pf.pc = "parsed" => pf.result = Ok(pf.address)


-----------------------------------------------------------------------------
(* C27: a dispatch that is blocked in its send on a full subscriber channel
   does not hold the registry's guard: a register call made meanwhile can
   complete, and so can a dispatch of an item with another key *)
C27_BlockedDispatchLeavesRegistryFree ==
    disp # None =>
        /\ Len(regLog) < MaxRegs => ENABLED Register
        /\ \A key \in Type \ {dispatch_key(disp[1])} :
              (/\ Len(dispLog) + 1 < MaxItems
               /\ dispatch(recv_map, chans, connected, [ethertype |-> key]).res # "Block")
                  => ENABLED Dispatch


-----------------------------------------------------------------------------
(* The TAP reader, the ARP actor and the relay thread of the actor's        *)
(* writer() endpoint as one system: the reader dispatches inbound ARP       *)
(* frames to the actor's channel ("s1") and drains the outbound channel,    *)
(* the actor answers on its endpoint ("w1"), the relay forwards to the      *)
(* outbound channel.  All three channels have the same capacity.             *)

(* the requests that fill every channel and every thread's hands *)
ArpLoad == 3 * cap + 3

ArpRequestFrame ==
    Frame_encode([dest |-> HostMac, src |-> PeerMac, ethertype |-> Arp,
                  payload |-> ArpPacket_encode([opcode |-> Request, src_ether |-> PeerMac,
                                                src_ipv4 |-> PeerIp, dest_ether |-> ZeroMac,
                                                dest_ipv4 |-> AddrA])])

(* ArpServer::new registered "s1" for Arp, add() was called, both started *)
InitTapArp ==
    /\ (\E n \in 1..ChanCap : Bounded(n)) /\ QueueIdle /\ TapIdle /\ Ip6Idle /\ ReactorIdle /\ PureIdle
    /\ recv_map = register(RecvSenderMap_new, Arp, "s1")
    /\ chans = [c \in ChanIds |-> <<>>]
    /\ connected = [c \in ChanIds |-> TRUE]
    /\ disp = None /\ regLog = <<>> /\ dispLog = <<>>
    /\ received = [c \in ChanIds |-> <<>>]
    /\ arp_recv = <<>> /\ arp = ArpReceiving /\ arp_sent = <<>> /\ arpLog = <<>>
    /\ addresses = {AddrA} /\ addLog = <<AddrA>>

(* a peer's ARP request arrives at the TAP *)
TapArpArrive ==
    /\ Len(readLog) + Len(tapIn) < ArpLoad
    /\ tapIn = <<>>
    /\ tapIn' = Append(tapIn, ArpRequestFrame)
    /\ UNCHANGED <<readLog, tapOut, write_chan, pipe, alerter, relay, rd, sentLog,
                   mapVars, dqVars, selVars, extVars>>

(* the actor's receiver.recv().unwrap() on the channel it registered, and
   arp_packet(&frame.payload).unwrap() *)
ArpServerRecv ==
    /\ arp.pc = "recv"
    /\ chans["s1"] # <<>>
    /\ chans' = [chans EXCEPT !["s1"] = Tail(@)]
    /\ LET r == arp_packet(Head(chans["s1"]).payload) IN
          arp' = IF r.ok THEN [pc |-> "check", packet |-> Some(r.v), start |-> addresses,
                              seen |-> {}]
                 ELSE [arp EXCEPT !.pc = "panicked"]
    /\ UNCHANGED <<recv_map, connected, disp, regLog, dispLog, received, dqVars, selVars,
                   tapVars, arp_recv, addresses, arp_sent, arpLog, addLog,
                   ip6Vars, trVars, pfVars, capVars>>

(* the actor's write_sender.send(frame).unwrap() on its writer() endpoint:
   blocks while the alerter channel is full; fails, and the actor panics,
   once the relay thread has ended and dropped the receiver *)
ArpServerSend ==
    /\ arp.pc = "send"
    /\ IF relay["w1"].pc = "panicked"
       THEN /\ arp' = [arp EXCEPT !.pc = "panicked"]
            /\ UNCHANGED <<alerter, sentLog, arp_sent, arpLog>>
       ELSE /\ Len(alerter["w1"]) < cap
            /\ LET f == ArpReply(arp.packet[1], HostMac) IN
                  /\ alerter' = [alerter EXCEPT !["w1"] = Append(@, f)]
                  /\ sentLog' = [sentLog EXCEPT !["w1"] = Append(@, f)]
                  /\ arp_sent' = Append(arp_sent, f)
                  /\ arpLog' = Append(arpLog, [packet |-> arp.packet[1], start |-> arp.start,
                                               seen |-> arp.seen, sent |-> <<f>>])
            /\ arp' = ArpReceiving
    /\ UNCHANGED <<tapIn, readLog, tapOut, write_chan, pipe, relay, rd,
                   dqVars, selVars, mapVars, arp_recv, addresses, addLog,
                   ip6Vars, trVars, pfVars, capVars>>

NextTapArp ==
    TapArpArrive \/ Reader \/ Relay \/ ArpServerRecv \/ ArpCheck \/ ArpServerSend

SpecTapArp == InitTapArp /\ [][NextTapArp]_vars

(* the three sends of the cycle, each waiting for room *)
ReaderBlocked ==
    /\ rd.pc = "dispatch"
    /\ dispatch(recv_map, chans, connected, rd.frame[1]).res = "Block"

ArpBlocked == arp.pc = "send" /\ Len(alerter["w1"]) >= cap

RelayBlocked == relay["w1"].pc = "send" /\ Len(write_chan) >= cap

(* C28 as stated: whatever the capacity of the channels, the reader, the ARP
   actor and the relay are never all blocked on a channel send at once *)
C28_NoCyclicWait == ~(ReaderBlocked /\ ArpBlocked /\ RelayBlocked)

(* C28 as amended: with channels of capacity two or more the reader, the ARP
   actor and the relay are never all blocked on a channel send at once *)
C28_NoCyclicWaitAboveOne ==
    cap >= 2 => ~(ReaderBlocked /\ ArpBlocked /\ RelayBlocked)

(* with capacity above one, the reader and the actor both wait for room and
   the outbound channel is full, the relay having just queued its frame *)
C28_Witness ==
    /\ cap >= 2
    /\ ReaderBlocked /\ ArpBlocked
    /\ relay["w1"].pc = "alert" /\ Len(write_chan) = cap


-----------------------------------------------------------------------------
(* TapInterface with writer() endpoints that are dropped.  Every writer()   *)
(* call wraps the same descriptor, write_alert_write_fd, in a File of its   *)
(* own and moves it into its relay thread (ether.rs:242-249): the File is   *)
(* dropped, and the descriptor closed, when a relay thread ends.            *)

(* the owner of an endpoint has dropped it: the last entry of its history *)
Disconnected == [dropped |-> TRUE]

EndpointDropped(w) ==
    sentLog[w] # <<>> /\ sentLog[w][Len(sentLog[w])] = Disconnected

(* a relay thread has ended and its File has closed the write end of the pipe *)
AlertFdClosed == \E w \in Writers : relay[w].pc = "panicked"

(* drop(alerter_sender) *)
WriterDrop ==
    \E w \in Writers :
        /\ Sent < MaxOut
        /\ ~EndpointDropped(w)
        /\ sentLog' = [sentLog EXCEPT ![w] = Append(@, Disconnected)]
        /\ UNCHANGED <<tapIn, readLog, tapOut, write_chan, pipe, alerter, relay, rd,
                       mapVars, dqVars, selVars, extVars>>

(* alerter_receiver.recv().unwrap() on the emptied channel of a dropped
   endpoint: Err(RecvError), the relay thread panics *)
RelayRecvDisconnected(w) ==
    /\ relay[w].pc = "recv"
    /\ alerter[w] = <<>>
    /\ EndpointDropped(w)
    /\ relay' = [relay EXCEPT ![w] = [@ EXCEPT !.pc = "panicked"]]
    /\ UNCHANGED <<tapIn, readLog, tapOut, write_chan, pipe, alerter, rd, sentLog,
                   mapVars, dqVars, selVars, extVars>>

(* the write of the alert byte through a descriptor that another relay
   thread's File has closed: it fails and unwrap() panics, or the number
   names a descriptor opened since and the byte goes there *)
RelayAlertClosed(w) ==
    /\ relay[w].pc = "alert"
    /\ AlertFdClosed
    /\ \E reused \in BOOLEAN :
          relay' = [relay EXCEPT ![w] = [@ EXCEPT !.pc = IF reused THEN "recv" ELSE "panicked"]]
    /\ UNCHANGED <<tapIn, readLog, tapOut, write_chan, pipe, alerter, rd, sentLog,
                   mapVars, dqVars, selVars, extVars>>

(* select(2) with the write end of the pipe closed: the read end is at end
   of file and always reported readable *)
RdSelectEof ==
    /\ rd.pc = "select"
    /\ AlertFdClosed
    /\ rd' = [pc |-> IF tapIn # <<>> THEN "tap" ELSE "pipe",
              tap |-> tapIn # <<>>, pipe |-> TRUE, frame |-> None]
    /\ UNCHANGED <<tapIn, readLog, tapOut, write_chan, pipe, alerter, relay, sentLog,
                   mapVars, dqVars, selVars, extVars>>

(* the read of one byte at end of file returns Ok(0): nothing is consumed,
   and the reader goes on to write_receiver.recv() *)
RdPipeReadEof ==
    /\ rd.pc = "pipe"
    /\ pipe = 0
    /\ AlertFdClosed
    /\ rd' = [rd EXCEPT !.pc = "recv"]
    /\ UNCHANGED <<tapIn, readLog, tapOut, write_chan, pipe, alerter, relay, sentLog,
                   mapVars, dqVars, selVars, extVars>>

RelayDrop ==
    \E w \in Writers :
        \/ RelayRecv(w) \/ RelaySend(w)
        \/ (~AlertFdClosed /\ RelayAlert(w))
        \/ RelayRecvDisconnected(w) \/ RelayAlertClosed(w)

ReaderDrop ==
    \/ (~AlertFdClosed /\ RdSelect) \/ RdSelectEof
    \/ RdTapRead \/ RdDispatch
    \/ RdPipeRead \/ RdPipeReadEof
    \/ RdRecv \/ RdTapWrite

NextTapDrop ==
    \/ TapArrive
    \/ \E w \in Writers : ~EndpointDropped(w) /\ WriterSendOn(w)
    \/ WriterDrop
    \/ RelayDrop \/ ReaderDrop \/ Receive

SpecTapDrop == InitTap /\ [][NextTapDrop]_vars

(* C30: dropping the endpoint of one writer() call stops that writer's relay
   thread and no other: a relay thread ends only when its own endpoint was
   dropped (or the reader is gone), and every frame a relay thread has
   forwarded to the outbound channel is signalled on the pipe *)
C30_DropStopsOnlyItsRelay ==
    /\ \A w \in Writers :
          relay[w].pc = "panicked" => (EndpointDropped(w) \/ rd.pc = "panicked")
    /\ (RelaysAt({"alert"}) = {} /\ rd.pc \notin {"recv", "panicked"})
          => pipe = Len(write_chan)

(* C29: the TAP is read and written by the reader thread alone; an iteration
   of its loop, from one select to the next, reads the TAP at most once, and
   only when select reported it readable, and writes it at most once, and
   only when select reported the pipe readable; the write comes after one
   byte was taken from the pipe and one frame from the outbound channel *)
C29_OneReadOneWritePerIteration ==
    [][/\ Len(tapIn') < Len(tapIn) =>
             /\ rd.pc = "tap" /\ rd.tap
             /\ tapIn' = Tail(tapIn) /\ readLog' = Append(readLog, Head(tapIn))
       /\ readLog' # readLog => Len(tapIn') < Len(tapIn)
       /\ tapOut' # tapOut =>
             /\ rd.pc = "write" /\ rd.pipe
             /\ Len(tapOut') = Len(tapOut) + 1
             /\ rd'.pc = "select"
       /\ (rd'.pc = "tap" /\ rd.pc # "tap") => rd.pc = "select"
       /\ (rd'.pc = "write" /\ rd.pc # "write") =>
             /\ rd.pc = "recv"
             /\ write_chan # <<>> /\ write_chan' = Tail(write_chan)
       /\ (rd'.pc = "recv" /\ rd.pc # "recv") =>
             /\ rd.pc = "pipe"
             /\ pipe' = pipe - 1
       /\ (rd'.pc = "pipe" /\ rd.pc # "pipe") => rd.pc \in {"select", "dispatch"}
      ]_vars


-----------------------------------------------------------------------------
(* C31: an ARP frame whose payload fails ARP decoding ends the actor's loop,
   and only such a frame does; from then on the actor answers nothing and
   takes nothing from its channel, while frames are still dispatched into
   the channel *)
C31_MalformedArpEndsActor ==
    [][/\ (arp.pc = "recv" /\ arp_recv # <<>> /\ arp_recv' = Tail(arp_recv)) =>
             (arp'.pc = "panicked" <=> ~arp_packet(Head(arp_recv).payload).ok)
       /\ arp.pc = "panicked" =>
             /\ arp'.pc = "panicked"
             /\ arp_sent' = arp_sent /\ arpLog' = arpLog
             /\ Len(arp_recv') >= Len(arp_recv)
      ]_vars

(* the actor ended on a packet with a wrong hardware type; a request for an
   address it owns was dispatched into its channel afterwards and waits *)
C31_Witness ==
    /\ arp.pc = "panicked"
    /\ arp_sent = <<>>
    /\ Len(arp_recv) = 1
    /\ LET r == arp_packet(arp_recv[1].payload) IN
          r.ok /\ r.v.opcode = Request /\ r.v.dest_ipv4 \in addresses

-----------------------------------------------------------------------------
(* Cancelling again: before run(), a second handle.cancel(h) with the handle
   just returned (reactor.rs, time_reactor_double_cancel_does_not_panic). *)
TrCancelTwice ==
    /\ tr.pc = "setup"
    /\ \E handle \in {tr_state.next_handle - 1} \cap DOMAIN tr_state.scheduled :
        /\ tr_state.scheduled[handle].cancelled
        /\ Cardinality({c \in TrCancels : trLog[c].handle = handle}) = 1
        /\ tr_state' = TimeReactorState_cancel(tr_state, handle)
        /\ trLog' = Append(trLog, [ev |-> "cancel", handle |-> handle, by |-> "setup",
                                   scheduled |-> handle \in DOMAIN tr_state.scheduled])
    /\ UNCHANGED <<tr, tr_now, tr_events, coreVars, arpVars, ip6Vars, pfVars, capVars>>

(* before run(): handle.at(instant, handler) with the closures of the cancel
   tests: one that pushes, one that stops, one that cancels a handle *)
TrAtCancelling ==
    /\ tr.pc = "setup"
    /\ tr_state.next_handle < MaxTimers
    /\ \E instant \in TrInstants,
          handler \in {Pusher, [k |-> "stop"], [k |-> "cancel", h |-> 1]} :
        /\ handler = Pusher \/ OnlyPushers(tr_state)
        /\ tr_state' = TimeReactorState_at(tr_state, instant, handler)
        /\ trLog' = Append(trLog, [ev |-> "at", handle |-> tr_state.next_handle,
                                   at |-> instant, by |-> "setup"])
    /\ UNCHANGED <<tr, tr_now, tr_events, coreVars, arpVars, ip6Vars, pfVars, capVars>>

(* before run(): handle.on_event(handler) with a closure that cancels *)
TrOnEventCancelling ==
    /\ tr.pc = "setup"
    /\ tr_state.event_handlers = <<>>
    /\ tr_state.next_handle = 0
    /\ tr_state' = TimeReactorHandle_on_event(tr_state, [k |-> "cancel", h |-> 1])
    /\ UNCHANGED <<tr, tr_now, tr_events, trLog, coreVars, arpVars, ip6Vars, pfVars, capVars>>

NextReactorCancel ==
    \/ TrAtCancelling \/ TrCancel \/ TrCancelTwice \/ TrOnEventCancelling
    \/ TrSend \/ TrTick \/ TrRun \/ TrLoop \/ TrTimer \/ TrEvent

SpecReactorCancel == InitReactor /\ [][NextReactorCancel]_vars

(* the step ends with a cancel of a handle whose timer has left the reactor
   or is cancelled already *)
StaleCancelStep ==
    /\ Len(trLog') > Len(trLog)
    /\ LET e == trLog'[Len(trLog')] IN
          /\ e.ev = "cancel"
          /\ \/ ~e.scheduled
             \/ /\ e.handle \in DOMAIN tr_state.scheduled
                /\ tr_state.scheduled[e.handle].cancelled

(* C32: a cancel of a timer that has fired already, or a second cancel of
   one handle, changes nothing and does not abort: every timer the reactor
   holds afterwards is as it was, none is added or lost beside the one that
   is firing, and no handle is ever given to two timers, the handles being
   strictly increasing in registration order *)
C32_StaleCancelIsNoOp ==
    [][/\ StaleCancelStep =>
             /\ tr'.pc # "panicked"
             /\ tr_state'.next_handle = tr_state.next_handle
             /\ \A h \in DOMAIN tr_state'.scheduled :
                    /\ h \in DOMAIN tr_state.scheduled
                    /\ tr_state'.scheduled[h] = tr_state.scheduled[h]
             /\ IF tr.pc = "select" /\ tr_events' = tr_events
                THEN tr_state' = drop_next(tr_state, tr.instance)
                ELSE tr_state' = tr_state
       /\ \A i, j \in DOMAIN trLog' :
             (i < j /\ trLog'[i].ev = "at" /\ trLog'[j].ev = "at") =>
                 trLog'[i].handle < trLog'[j].handle
      ]_vars

(* a handler cancelled the handle of a timer whose handler had been invoked
   before, and another handle had been cancelled twice before run() *)
C32_Witness ==
    /\ \E c \in TrCancels, f \in TrInvoked :
          /\ trLog[c].by # "setup" /\ ~trLog[c].scheduled
          /\ f < c /\ trLog[f].handle = trLog[c].handle
    /\ \E c, d \in TrCancels :
          /\ c < d /\ trLog[c].handle = trLog[d].handle
          /\ trLog[c].by = "setup" /\ trLog[d].by = "setup"
    /\ tr.pc = "loop"

-----------------------------------------------------------------------------
(* C33: the pipe never holds more unread bytes than the outbound channel
   holds frames; a byte leaves the pipe only in the reader's one-byte read,
   a frame leaves the channel only in the reader's receive, and so the
   receive that follows a byte taken from the pipe finds a frame waiting *)
C33_ByteDrainedFrameWaiting ==
    [][/\ pipe' <= Len(write_chan')
       /\ pipe' < pipe =>
             /\ rd.pc = "pipe" /\ rd'.pc = "recv"
             /\ pipe' = pipe - 1
             /\ write_chan' # <<>>
       /\ Len(write_chan') < Len(write_chan) =>
             /\ rd.pc = "recv" /\ rd'.pc = "write"
             /\ rd'.frame = Some(Head(write_chan))
      ]_vars

(* the reader has taken the only byte from the pipe and is about to receive
   the frame that waits in the outbound channel, while the other relay
   thread waits to queue the next frame *)
C33_Witness ==
    /\ rd.pc = "recv"
    /\ pipe = 0 /\ Len(write_chan) = 1
    /\ RelaysAt({"send"}) # {}

-----------------------------------------------------------------------------
(* the place of the k-th extension header on the wire, as the number of
   bytes before it: the first follows the fixed header, every other one
   begins where the one before it ends *)
RECURSIVE WireOffset(_, _)
WireOffset(input, k) ==
    IF k = 1 THEN 40
    ELSE LET o == WireOffset(input, k - 1) IN o + (1 + input[o + 2]) * 8

(* the next-header byte that announces the k-th header of the chain, the
   one after the last header listed being the upper-layer protocol *)
WireAnnounces(input, k) ==
    IF k = 1 THEN input[7] ELSE input[WireOffset(input, k - 1) + 1]

(* C34: the next header of every packet the parser returns is a protocol
   number and not hop-by-hop options: it is the byte that ends the chain on
   the wire, every header before it was announced as hop-by-hop options, and
   extension_headers lists the options of these headers in wire order *)
C34_NextHeaderIsProtocol ==
    (pf.pc = "parsed" /\ pf.result.ok) =>
        LET p == pf.result.v
            n == Len(p.extension_headers)
        IN  /\ p.next_header \in 1..255
            /\ p.next_header = WireAnnounces(pf.input, n + 1)
            /\ \A k \in 1..n :
                  LET o == WireOffset(pf.input, k) IN
                  /\ WireAnnounces(pf.input, k) = HopByHop
                  /\ Ok(p.extension_headers[k])
                        = hop_by_hop_options(SubSeq(pf.input, o + 3,
                                                    o + (1 + pf.input[o + 2]) * 8))

(* a packet was returned from an input with two chained hop-by-hop headers
   that carry different options *)
C34_Witness ==
    /\ pf.pc = "parsed" /\ pf.result.ok
    /\ Len(pf.result.v.extension_headers) = 2
    /\ pf.result.v.extension_headers[1] # pf.result.v.extension_headers[2]
    /\ pf.result.v.next_header = Udp

-----------------------------------------------------------------------------
(* The event channel with senders that can be dropped.  A receive on a
   channel that is empty and has no sender left is ready at once, with
   Err(RecvError); the dropping of the last sender is the last entry of the
   channel. *)
SendersDropped == [dropped |-> TRUE]

EventsDisconnected ==
    tr_events # <<>> /\ tr_events[Len(tr_events)] = SendersDropped

(* drop(sender), the last sender of the event channel, before or during run() *)
TrSendersDrop ==
    /\ tr.pc \in {"setup", "select", "recv"}
    /\ ~EventsDisconnected
    /\ tr_events' = Append(tr_events, SendersDropped)
    /\ UNCHANGED <<tr_state, tr, tr_now, trLog, coreVars, arpVars, ip6Vars, pfVars, capVars>>

(* run, lines 158-163 and 165: the receive on the disconnected channel
   returns Err; the select arm panics with "failed to recv", and so does
   expect("failed to receive") when no timer is scheduled *)
TrRecvDisconnected ==
    /\ tr.pc \in {"select", "recv"}
    /\ tr_events = <<SendersDropped>>
    /\ tr' = [TrSetup EXCEPT !.pc = "panicked"]
    /\ trLog' = Append(trLog, [ev |-> "recv_failed", at |-> tr_now])
    /\ UNCHANGED <<tr_state, tr_now, tr_events, coreVars, arpVars, ip6Vars, pfVars, capVars>>

NextReactorDrop ==
    \/ TrAt \/ TrCancel \/ TrTick \/ TrRun \/ TrLoop \/ TrTimer
    \/ (~EventsDisconnected /\ TrSend)
    \/ TrSendersDrop
    \/ (tr_events # <<SendersDropped>> /\ TrEvent)
    \/ TrRecvDisconnected

SpecReactorDrop == InitReactor /\ [][NextReactorDrop]_vars

(* C35: when run() ends on the disconnected event channel, no timer that
   was not cancelled is left waiting: every pending timer has fired *)
C35_DisconnectKeepsTimers ==
    (\E i \in DOMAIN trLog : trLog[i].ev = "recv_failed") =>
        \A instance \in tr_state.upcoming :
            tr_state.scheduled[instance.after_id].cancelled

-----------------------------------------------------------------------------
(* EncodeTo for ExtensionHeader (packet.rs) on hop-by-hop headers of many   *)
(* options: encoded_len() and the bytes that encode_to writes behind the    *)
(* next-header byte of Packet::encode_extension_headers.                    *)
MaxOptions == 70

(* EncodeTo for HopByHopOption and for Vec: type, length and a two-byte
   value for each option *)
HopByHopOptions_encoded_len(options) == Len(options) * (1 + 1 + 2)

(* ExtensionHeader::encoded_len *)
ExtensionHeader_encoded_len(options) ==
    1 + round_up_to_next(HopByHopOptions_encoded_len(options) + 2, 8) - 2

(* headers of up to MaxOptions router alerts of one type *)
OptionLists ==
    {[i \in 1..n |-> [type |-> RouterAlert, alert |-> a]] :
        n \in 0..MaxOptions, a \in 0..2}

InitExtHeader ==
    /\ Bounded(ChanCap) /\ QueueIdle /\ MapIdle /\ TapIdle /\ ArpIdle /\ Ip6Idle /\ ReactorIdle
    /\ \E options \in OptionLists : pf = [pc |-> "value", options |-> options]

(* header.encoded_len() *)
ExtHeaderEncodedLen ==
    /\ pf.pc = "value"
    /\ pf' = [pc |-> "sized", options |-> pf.options,
              encoded_len |-> ExtensionHeader_encoded_len(pf.options)]
    /\ UNCHANGED <<coreVars, arpVars, ip6Vars, trVars, capVars>>

(* encode_to!(output, next_header, extension_header) of
   encode_extension_headers, for a header that is the last of its chain *)
ExtHeaderEncode ==
    /\ pf.pc = "sized"
    /\ \E next_header \in {Udp, Ipv6Icmp} :
        pf' = [pc |-> "encoded", options |-> pf.options, encoded_len |-> pf.encoded_len,
               written |-> <<next_header>> \o ExtensionHeader_encode(pf.options)]
    /\ UNCHANGED <<coreVars, arpVars, ip6Vars, trVars, capVars>>

NextExtHeader == ExtHeaderEncodedLen \/ ExtHeaderEncode

SpecExtHeader == InitExtHeader /\ [][NextExtHeader]_vars

(* C36: a hop-by-hop header of at most 2048 bytes is written as a multiple
   of eight bytes; its length byte is that length in units of eight bytes,
   less one; a padding of two bytes or more is one PadN option whose length
   is the padding less two, followed by zeroes; and encoded_len() plus the
   next-header byte is the number of bytes written *)
C36_HeaderLengthByte ==
    (pf.pc = "encoded" /\ Len(pf.written) <= 2048) =>
        LET total == Len(pf.written)
            start == 2 + HopByHopOptions_encoded_len(pf.options)
            padding == total - start
        IN  /\ total % 8 = 0
            /\ pf.written[2] = total \div 8 - 1
            /\ padding >= 2 =>
                  /\ pf.written[start + 1] = PadN
                  /\ pf.written[start + 2] = padding - 2
                  /\ \A i \in (start + 3)..total : pf.written[i] = 0
            /\ pf.encoded_len + 1 = total

-----------------------------------------------------------------------------
(* C37: the heap and the table of timers name the same handles, each handle
   once in the heap; and while run() waits in its select, the instance that
   get_next_schedule returned is still on top of the heap and has its entry
   in the table, so that the lookup succeeds and drop_next pops the instance
   it is given *)
C37_HeapMatchesScheduled ==
    /\ {i.after_id : i \in tr_state.upcoming} = DOMAIN tr_state.scheduled
    /\ \A i, j \in tr_state.upcoming : i.after_id = j.after_id => i = j
    /\ tr.pc = "select" =>
          /\ tr.instance \in upcoming_peek(tr_state.upcoming)
          /\ tr.instance.after_id \in DOMAIN tr_state.scheduled
          /\ tr.cancelled = tr_state.scheduled[tr.instance.after_id].cancelled

(* run() waits in its select with two timers in the heap, one registered by
   a handler during run() and one that was cancelled, after a timer fired *)
C37_Witness ==
    /\ tr.pc = "select"
    /\ Cardinality(tr_state.upcoming) = 2
    /\ \E r \in TrRegs :
          /\ trLog[r].by # "setup"
          /\ [at |-> trLog[r].at, after_id |-> trLog[r].handle] \in tr_state.upcoming
    /\ \E h \in DOMAIN tr_state.scheduled : tr_state.scheduled[h].cancelled
    /\ TrFires # {}

-----------------------------------------------------------------------------
(* C38: the instant the timer channel delivers is later than the timer's
   deadline on every firing, so that the assertion of the timer arm holds
   and run() is never ended by it: whenever the timer arm is taken, the
   timer is dropped and run() goes on to its loop condition *)
C38_FiredAfterDeadline ==
    [][(tr.pc = "select" /\ tr'.pc # "select" /\ tr_events' = tr_events) =>
            /\ tr'.pc = "loop"
            /\ tr.instance \notin tr_state'.upcoming
      ]_vars

-----------------------------------------------------------------------------
(* C39: from the creation of the queue's receiver to the arm that runs, the
   queue is as it was and the receiver's deadline is its earliest key; the
   only change an invocation makes to the queue is the recv_queue arm's
   removal of that key, which finds the entry, and no arm ever aborts *)
C39_DeadlineStillQueued ==
    [][/\ sel'.pc # "panicked"
       /\ sel'.pc = "waiting" =>
             /\ sel'.rcv = receiver(items')
             /\ sel'.rcv # None => pop_at(items', sel'.rcv[1]).ret # None
       /\ (sel.pc = "waiting" /\ items' # items) =>
             /\ sel'.pc = "idle"
             /\ AtReady(sel.rcv, now)
             /\ sel.rcv[1] \in DOMAIN items
             /\ items' = pop_at(items, sel.rcv[1]).map
      ]_vars

(* a recv_queue arm has fired on a queue of two entries, after the thread
   had waited for the earlier deadline while the channel stayed empty *)
C39_Witness ==
    \E k \in Fired(opLog, "recv_queue") :
        LET e == Selects(opLog)[k][3] IN
            /\ e.at > e.start
            /\ Cardinality(DOMAIN e.before) = 2
            /\ e.chanBefore = <<>>
            /\ e.rcv[1] \notin DOMAIN items

====
